---- MODULE Spec2Model ----
(***************************************************************************)
(* Model of the editing core of terminal-notepad (note/src): Row, History, *)
(* Buffer, Cursor, Select, Screen and the Editor event loop.               *)
(*                                                                         *)
(* Conventions.                                                            *)
(*   - A Row is a sequence of characters; characters are one-character     *)
(*     strings.  TAB stands for '\t', WIDE for a double-width (CJK)        *)
(*     scalar value and ZERO for a zero-width one.                         *)
(*   - A coordinate is the tuple <<x, y>>, as the Rust tuple (x, y).       *)
(*   - Option<T> is a sequence of length at most one: None == <<>> and     *)
(*     Some(v) == <<v>>.                                                   *)
(*   - Rust indices are 0-based; Take / Drop convert to TLA+ sequences.    *)
(*   - A Rust panic (index out of range, checked arithmetic) aborts the    *)
(*     process: operators report it in a "panic" field and the actions     *)
(*     record it in the variable panicked, after which nothing happens.    *)
(***************************************************************************)
EXTENDS Integers, Sequences, FiniteSets, TLC

VARIABLES
    content,          \* Editor.content : Buffer
    cursor,           \* Editor.cursor : Cursor
    select,           \* Editor.select : Select
    screen,           \* Editor.screen : Screen
    row,              \* a free-standing Row (Row-level operations)
    saved,            \* the rows as they were at load or at the last successful save
    last,             \* the last call: its name, arguments, result and pre-state
    steps,            \* number of calls made so far
    prompt,           \* where the main loop stands, and the Prompt it is inside of
    trail,            \* rows and coordinate of each recorded call not yet undone;
                      \* in SpecDraw, the terminal's cells in reverse video;
                      \* in SpecWorker, the worker threads and their channels
    overflow_checks,  \* TRUE: build with overflow checks (debug); FALSE: wrapping (release)
    panicked          \* the process was aborted by a panic

vars ==
    <<content, cursor, select, screen, row, saved, last, steps, prompt, trail,
      overflow_checks, panicked>>

----------------------------------------------------------------------------
(* Bounds of the model *)

MaxRows == 2
MaxLen == 2
MaxCoord == 2
MaxSteps == 2
MaxUndoDepth == 1
MaxUndoSteps == 3
MaxRowLen == 2
MaxIndex == 4
MaxRowSteps == 2
MaxCursorRows == 2
MaxCursorCoord == 4
MaxHeight == 2
MaxSelectCoord == 2
MaxEditorSteps == 3
MaxChars == 2

----------------------------------------------------------------------------
(* Generic helpers *)

None == <<>>
Some(v) == <<v>>
IsSome(o) == o # <<>>
Unwrap(o) == o[1]

Min(a, b) == IF a < b THEN a ELSE b
Max(a, b) == IF a < b THEN b ELSE a

X(p) == p[1]
Y(p) == p[2]

\* s[..n]
Take(s, n) == SubSeq(s, 1, Min(n, Len(s)))
\* s[n..]
Drop(s, n) == SubSeq(s, Min(n, Len(s)) + 1, Len(s))
\* s[a..b]
Slice(s, a, b) == SubSeq(s, a + 1, Min(b, Len(s)))

Front(s) == SubSeq(s, 1, Len(s) - 1)

RECURSIVE Reverse(_)
Reverse(s) == IF s = <<>> THEN <<>> ELSE Append(Reverse(Tail(s)), Head(s))

RECURSIVE Repeat(_, _)
Repeat(ch, n) == IF n <= 0 THEN <<>> ELSE <<ch>> \o Repeat(ch, n - 1)

\* usize arithmetic.  TLC's integers have 32 bits, so the machine word is
\* modelled with 30 bits; every quantity of the model is far below it.
USizeModulus == 1073741824
\* largest length a Vec<char> may be asked to hold: isize::MAX bytes / 4,
\* an eighth of the modulus
MaxVecChars == 134217727

----------------------------------------------------------------------------
(* buffer.rs : characters and Row *)

TAB == "T"
WIDE == "W"
\* a scalar value unicode-width gives the width 0 (a combining mark)
ZERO == "Z"
SPACE == " "
TAB_STOP == 8

\* ch.width_cjk().unwrap_or(1): Some(2), Some(0) and Some(1) pass through, None is 1
char_width(ch) == CASE ch = WIDE -> 2 [] ch = ZERO -> 0 [] OTHER -> 1

\* an append that loses the appended characters
RowAppendDropped(r, other) == r

RowAppend(r, other) == r \o other

RowInsert(r, index, element) ==
    IF index <= Len(r) THEN Take(r, index) \o <<element>> \o Drop(r, index) ELSE r

RowInsertSlice(r, index, other) ==
    IF index <= Len(r) THEN Take(r, index) \o other \o Drop(r, index) ELSE r

\* Vec::remove behind a length check
RowRemove(r, index) ==
    IF index < Len(r)
    THEN [row |-> Take(r, index) \o Drop(r, index + 1), ret |-> Some(r[index + 1])]
    ELSE [row |-> r, ret |-> None]

\* Vec::drain(start..end) behind a check of the end only: drain panics when start > end
RowRemoveRange(r, start, end) ==
    IF end <= Len(r)
    THEN IF start > end
         THEN [row |-> r, ret |-> None, panic |-> TRUE]
         ELSE [row |-> Take(r, start) \o Drop(r, end),
               ret |-> Some(Slice(r, start, end)), panic |-> FALSE]
    ELSE [row |-> r, ret |-> None, panic |-> FALSE]

\* index + length on usize: a panic with overflow checks, wrapping without
RowReplace(r, index, length, other) ==
    LET stop == (index + length) % USizeModulus
        rm == RowRemoveRange(r, index, stop)
    IN  IF index + length >= USizeModulus /\ overflow_checks
        THEN [row |-> r, ret |-> None, panic |-> TRUE]
        ELSE IF IsSome(rm.ret)
        THEN [row |-> RowInsertSlice(rm.row, index, other), ret |-> rm.ret, panic |-> rm.panic]
        ELSE [row |-> r, ret |-> None, panic |-> rm.panic]

\* a split that copies the tail and leaves the row whole
RowSplitOffCopied(r, at) ==
    IF at > Len(r)
    THEN [row |-> r, ret |-> <<>>, panic |-> TRUE]
    ELSE [row |-> r, ret |-> Drop(r, at), panic |-> FALSE]

\* Vec::split_off(at) panics when at > len
RowSplitOff(r, at) ==
    IF at > Len(r)
    THEN [row |-> r, ret |-> <<>>, panic |-> TRUE]
    ELSE [row |-> Take(r, at), ret |-> Drop(r, at), panic |-> FALSE]

RECURSIVE WidthFrom(_, _)
WidthFrom(chars, render) ==
    IF chars = <<>> THEN render
    ELSE WidthFrom(Tail(chars),
                   IF Head(chars) = TAB
                   THEN render + (TAB_STOP - (render % TAB_STOP))
                   ELSE render + char_width(Head(chars)))

\* Row::width_range(start..end); the slice panics when the range is not within the row
RowWidthRange(r, start, end) == WidthFrom(Slice(r, start, end), 0)

RowWidth(r) == RowWidthRange(r, 0, Len(r))

RowLastCharWidth(r) == IF r = <<>> THEN 0 ELSE char_width(r[Len(r)])

----------------------------------------------------------------------------
(* cursor.rs : Cursor, the operations on (x0, y0) over a Buffer *)

rows(b) == Len(b.rows)

row_char_len(b, at) == IF Y(at) < Len(b.rows) THEN Len(b.rows[Y(at) + 1]) ELSE 0

\* Mutation: the overflow check of x is left out
move_to_xmax_unchecked(c, b) == c

move_to_xmax_ifoverflow(c, b) ==
    IF row_char_len(b, c) < X(c) THEN <<row_char_len(b, c), Y(c)>> ELSE c

move_to_ymax_ifoverflow(c, b) ==
    IF rows(b) < Y(c) THEN <<X(c), rows(b)>> ELSE c

CursorSetX(c, b, x) == move_to_xmax_ifoverflow(<<x, Y(c)>>, b)

CursorSetY(c, b, y) ==
    move_to_xmax_ifoverflow(move_to_ymax_ifoverflow(<<X(c), y>>, b), b)

\* Mutation: the coordinates are taken as they are given
CursorSetUnchecked(c, b, at) == at

CursorSet(c, b, at) == CursorSetX(CursorSetY(c, b, Y(at)), b, X(at))

CursorDefault == <<0, 0>>

move_down(c, b) ==
    IF Y(c) < rows(b) THEN move_to_xmax_ifoverflow(<<X(c), Y(c) + 1>>, b) ELSE c

move_up(c, b) ==
    IF 0 < Y(c) THEN move_to_xmax_ifoverflow(<<X(c), Y(c) - 1>>, b) ELSE c

\* a step to the left that stops at the start of the row
move_left_in_row(c, b) == IF 0 < X(c) THEN <<X(c) - 1, Y(c)>> ELSE c

move_left(c, b) ==
    IF 0 < X(c) THEN <<X(c) - 1, Y(c)>>
    ELSE IF 0 < Y(c) THEN <<row_char_len(b, <<X(c), Y(c) - 1>>), Y(c) - 1>>
    ELSE c

move_right(c, b) ==
    IF X(c) < row_char_len(b, c) THEN <<X(c) + 1, Y(c)>>
    ELSE IF Y(c) < rows(b) THEN <<0, Y(c) + 1>>
    ELSE c

move_to_x0(c) == <<0, Y(c)>>

move_to_xmax(c, b) == <<row_char_len(b, c), Y(c)>>

move_down_screen(c, b, s) ==
    move_to_xmax_ifoverflow(move_to_ymax_ifoverflow(<<X(c), Y(c) + s.height>>, b), b)

move_up_screen(c, b, s) ==
    move_to_xmax_ifoverflow(
        <<X(c), IF s.height < Y(c) THEN Y(c) - s.height ELSE 0>>, b)

\* Cursor::render slices the row up to x0: it panics when x0 is beyond the row
RenderPanics(c, b) == Y(c) < rows(b) /\ X(c) > Len(b.rows[Y(c) + 1])

render(c, b) ==
    IF Y(c) < rows(b)
    THEN <<RowWidthRange(b.rows[Y(c) + 1], 0, X(c)), Y(c)>>
    ELSE <<0, rows(b)>>

\* first loop of move_render_to_x
RECURSIVE RenderForward(_, _, _)
RenderForward(x, r, width) ==
    IF x < Len(r) /\ RowWidthRange(r, 0, x) < width
    THEN RenderForward(x + 1, r, width)
    ELSE x

\* second loop of move_render_to_x
RECURSIVE RenderBackward(_, _, _)
RenderBackward(x, r, width) ==
    IF 0 < x /\ x <= Len(r) /\ width < RowWidthRange(r, 0, x)
    THEN RenderBackward(x - 1, r, width)
    ELSE x

\* a scan that stops where the first loop stops
move_render_past_x(c, b, width) ==
    IF Y(c) < rows(b)
    THEN <<RenderForward(X(c), b.rows[Y(c) + 1], width), Y(c)>>
    ELSE c

move_render_to_x(c, b, width) ==
    IF Y(c) < rows(b)
    THEN LET r == b.rows[Y(c) + 1]
         IN  <<RenderBackward(RenderForward(X(c), r, width), r, width), Y(c)>>
    ELSE c

move_down_render(c, b) == move_render_to_x(move_down(c, b), b, X(render(c, b)))

move_up_render(c, b) == move_render_to_x(move_up(c, b), b, X(render(c, b)))

----------------------------------------------------------------------------
(* history.rs : History and Operation *)

ModeNone == "None"
ModeRectangle == "Rectangle"
SelectModes == {ModeNone, ModeRectangle}

\* One record shape for every Operation variant; the fields a variant does
\* not carry hold a default.
Operation(tag, cord, end, ch, rs, mode, length) ==
    [tag |-> tag, cord |-> cord, end |-> end, ch |-> ch, rows |-> rs,
     mode |-> mode, length |-> length]

OpAppend(cord) == Operation("Append", cord, <<0, 0>>, "", <<>>, ModeNone, 0)
OpDeleteChar(cord, ch) == Operation("DeleteChar", cord, <<0, 0>>, ch, <<>>, ModeNone, 0)
OpDeleteChars(cord, rs, mode) == Operation("DeleteChars", cord, <<0, 0>>, "", rs, mode, 0)
OpDeleteRow(cord, r) == Operation("DeleteRow", cord, <<0, 0>>, "", <<r>>, ModeNone, 0)
OpInsertChar(cord) == Operation("InsertChar", cord, <<0, 0>>, "", <<>>, ModeNone, 0)
OpInsertChars(cord, end, mode) == Operation("InsertChars", cord, end, "", <<>>, mode, 0)
OpInsertRow(cord) == Operation("InsertRow", cord, <<0, 0>>, "", <<>>, ModeNone, 0)
OpReplace(cord, length, r) == Operation("Replace", cord, <<0, 0>>, "", <<r>>, ModeNone, length)
OpShrinkRow(cord, r) == Operation("ShrinkRow", cord, <<0, 0>>, "", <<r>>, ModeNone, 0)
OpSplitRow(cord) == Operation("SplitRow", cord, <<0, 0>>, "", <<>>, ModeNone, 0)
OpSquashRow(cord) == Operation("SquashRow", cord, <<0, 0>>, "", <<>>, ModeNone, 0)

\* History::record
record(b, cur, op) == [b EXCEPT !.history = Append(@, [cursor |-> cur, op |-> op])]

\* Mutation: the entry is read but stays in the history
rollback_peek(b) ==
    [b |-> b, ret |-> IF b.history = <<>> THEN None ELSE Some(b.history[Len(b.history)])]

\* History::rollback
rollback(b) ==
    IF b.history = <<>>
    THEN [b |-> b, ret |-> None]
    ELSE [b |-> [b EXCEPT !.history = Front(@)], ret |-> Some(b.history[Len(b.history)])]

----------------------------------------------------------------------------
(* buffer.rs : Buffer, the bypass (non-recording) mutators *)

\* Buffer::default(), then the rows of the file
BufferFrom(rs, filename) ==
    [rows |-> rs, filename |-> filename, cached |-> FALSE, updated |-> <<>>,
     history |-> <<>>, pending |-> None, panic |-> FALSE]

Panic(b) == [b EXCEPT !.panic = TRUE]

MarkUpdated(b, start, end) == [b EXCEPT !.updated = Append(@, <<start, end>>)]

SetCached(b) == [b EXCEPT !.cached = TRUE]

append_row_bypass(b, at, text) ==
    IF Y(at) < rows(b)
    THEN [b |-> [MarkUpdated(SetCached(b), Y(at), Y(at) + 1)
                    EXCEPT !.rows[Y(at) + 1] = RowAppend(@, text)],
          ret |-> Some(<<Len(b.rows[Y(at) + 1]), Y(at)>>)]
    ELSE [b |-> b, ret |-> None]

delete_row_bypass(b, at) ==
    IF Y(at) < rows(b)
    THEN [b |-> [MarkUpdated(SetCached(b), Y(at), rows(b))
                    EXCEPT !.rows = Take(@, Y(at)) \o Drop(@, Y(at) + 1)],
          ret |-> Some(b.rows[Y(at) + 1])]
    ELSE [b |-> b, ret |-> None]

delete_char_bypass(b, at) ==
    IF Y(at) < rows(b) /\ 0 < X(at) /\ X(at) <= Len(b.rows[Y(at) + 1])
    THEN LET rm == RowRemove(b.rows[Y(at) + 1], X(at) - 1)
         IN  IF IsSome(rm.ret)
             THEN [b |-> [MarkUpdated(SetCached(b), Y(at), Y(at) + 1)
                             EXCEPT !.rows[Y(at) + 1] = rm.row],
                   ret |-> rm.ret]
             ELSE [b |-> b, ret |-> None]
    ELSE [b |-> b, ret |-> None]

\* Vec::insert(index, ..) panics when index > len
insert_row_bypass(b, at, text) ==
    IF Y(at) > rows(b)
    THEN [b |-> Panic(b), ret |-> None]
    ELSE [b |-> [MarkUpdated(SetCached(b), Y(at), rows(b) + 1)
                    EXCEPT !.rows = Take(@, Y(at)) \o <<text>> \o Drop(@, Y(at))],
          ret |-> None]

insert_char_bypass(b, at, ch) ==
    IF Y(at) < rows(b) /\ X(at) <= Len(b.rows[Y(at) + 1])
    THEN [b |-> [MarkUpdated(SetCached(b), Y(at), Y(at) + 1)
                    EXCEPT !.rows[Y(at) + 1] = RowInsert(@, X(at), ch)],
          ret |-> Some(<<X(at), Y(at)>>)]
    ELSE [b |-> b, ret |-> None]

replace_bypass(b, at, length, text) ==
    IF Y(at) < rows(b)
    THEN LET rp == RowReplace(b.rows[Y(at) + 1], X(at), length, text)
         IN  IF rp.panic THEN [b |-> Panic(b), ret |-> None]
             ELSE IF IsSome(rp.ret)
             THEN [b |-> [MarkUpdated(SetCached(b), Y(at), Y(at) + 1)
                             EXCEPT !.rows[Y(at) + 1] = rp.row],
                   ret |-> rp.ret]
             ELSE [b |-> b, ret |-> None]
    ELSE [b |-> b, ret |-> None]

shrink_row_bypass(b, at) ==
    IF Y(at) < rows(b)
    THEN LET sp == RowSplitOff(b.rows[Y(at) + 1], X(at))
         IN  IF sp.panic THEN [b |-> Panic(b), ret |-> None]
             ELSE [b |-> [MarkUpdated(SetCached(b), Y(at), Y(at) + 1)
                             EXCEPT !.rows[Y(at) + 1] = sp.row,
                                    !.pending = Some([rows |-> <<sp.ret>>, mode |-> ModeNone])],
                   ret |-> Some(sp.ret)]
    ELSE [b |-> b, ret |-> None]

split_row_bypass(b, at) ==
    IF Y(at) < rows(b)
    THEN LET sp == RowSplitOff(b.rows[Y(at) + 1], X(at))
             b1 == [MarkUpdated(SetCached(b), Y(at), rows(b) + 1)
                       EXCEPT !.rows[Y(at) + 1] = sp.row]
             next_at == CursorSet(CursorDefault, b1, <<X(at), Y(at) + 1>>)
             ins == insert_row_bypass(b1, next_at, sp.ret)
         IN  IF sp.panic THEN [b |-> Panic(b), ret |-> None]
             ELSE [b |-> ins.b, ret |-> Some(next_at)]
    ELSE [b |-> b, ret |-> None]

squash_row_bypass(b, at) ==
    IF 0 < Y(at)
    THEN LET d == delete_row_bypass(b, at)
             b1 == MarkUpdated(SetCached(d.b), Y(at) - 1, rows(d.b))
             next_at == CursorSet(CursorDefault, b1, <<X(at), Y(at) - 1>>)
         IN  IF IsSome(d.ret)
             THEN append_row_bypass(b1, next_at, Unwrap(d.ret))
             ELSE [b |-> b, ret |-> None]
    ELSE [b |-> b, ret |-> None]

\* The loop of delete_chars_none over the rows end.y down to start.y
RECURSIVE DeleteCharsNoneLoop(_, _, _, _, _, _)
DeleteCharsNoneLoop(b, start, end, idx, rs, lastRow) ==
    IF idx < Y(start) \/ b.panic THEN [b |-> b, rs |-> rs]
    ELSE IF idx >= rows(b) THEN DeleteCharsNoneLoop(b, start, end, idx - 1, rs, lastRow)
    ELSE IF idx = Y(start)
    THEN LET r == b.rows[idx + 1]
             rm == RowRemoveRange(r, X(start), Len(r))
             rs2 == IF IsSome(rm.ret) THEN Append(rs, Unwrap(rm.ret)) ELSE rs
             b2 == [b EXCEPT !.rows[idx + 1] = RowAppend(rm.row, lastRow)]
         IN  IF rm.panic THEN [b |-> Panic(b), rs |-> rs]
             ELSE DeleteCharsNoneLoop(b2, start, end, idx - 1, rs2, lastRow)
    ELSE IF idx = Y(end)
    THEN LET r == b.rows[idx + 1]
             rm == RowRemoveRange(r, 0, X(end))
             rs2 == IF IsSome(rm.ret) THEN Append(rs, Unwrap(rm.ret)) ELSE rs
             d == delete_row_bypass([b EXCEPT !.rows[idx + 1] = rm.row], <<0, idx>>)
         IN  DeleteCharsNoneLoop(d.b, start, end, idx - 1, rs2,
                                 IF IsSome(d.ret) THEN Unwrap(d.ret) ELSE lastRow)
    ELSE LET d == delete_row_bypass(b, <<0, idx>>)
         IN  DeleteCharsNoneLoop(d.b, start, end, idx - 1,
                                 IF IsSome(d.ret) THEN Append(rs, Unwrap(d.ret)) ELSE rs,
                                 lastRow)

delete_chars_none(b, start, end) ==
    IF Y(start) = Y(end)
    THEN IF Y(start) < rows(b) /\ X(start) < Len(b.rows[Y(start) + 1])
         THEN LET rm == RowRemoveRange(b.rows[Y(start) + 1], X(start), X(end))
              IN  IF rm.panic THEN [b |-> Panic(b), rs |-> <<>>]
                  ELSE IF IsSome(rm.ret)
                  THEN [b |-> [b EXCEPT !.rows[Y(start) + 1] = rm.row],
                        rs |-> <<Unwrap(rm.ret)>>]
                  ELSE [b |-> b, rs |-> <<>>]
         ELSE [b |-> b, rs |-> <<>>]
    ELSE DeleteCharsNoneLoop(b, start, end, Y(end), <<>>, <<>>)

\* end.x - start.x on usize: a panic with overflow checks, wrapping without
USizeSub(a, b) == IF a >= b THEN a - b ELSE a - b + USizeModulus

\* The loop of delete_chars_rectangle over the rows end.y down to start.y;
\* collecting more than MaxVecChars spaces panics (capacity overflow)
RECURSIVE DeleteCharsRectangleLoop(_, _, _, _, _, _, _)
DeleteCharsRectangleLoop(b, sy, idx, startx, endx, length, rs) ==
    IF idx < sy \/ b.panic THEN [b |-> b, rs |-> rs]
    ELSE LET r == b.rows[idx + 1]
         IN  IF startx < Len(r)
             THEN LET endx2 == Min(Len(r), endx)
                      post == length - (endx2 - startx)
                      rm == RowRemoveRange(r, startx, endx2)
                  IN  IF post > MaxVecChars THEN [b |-> Panic(b), rs |-> rs]
                      ELSE DeleteCharsRectangleLoop(
                               [b EXCEPT !.rows[idx + 1] = rm.row], sy, idx - 1,
                               startx, endx, length,
                               Append(rs, Unwrap(rm.ret) \o Repeat(SPACE, post)))
             ELSE IF length > MaxVecChars THEN [b |-> Panic(b), rs |-> rs]
             ELSE DeleteCharsRectangleLoop(b, sy, idx - 1, startx, endx, length,
                                           Append(rs, Repeat(SPACE, length)))

delete_chars_rectangle(b, start, end) ==
    IF Y(start) <= Y(end) + 1 /\ Y(end) + 1 <= rows(b)
    THEN IF X(end) < X(start) /\ overflow_checks
         THEN [b |-> Panic(b), rs |-> <<>>]
         ELSE DeleteCharsRectangleLoop(b, Y(start), Y(end),
                                       Min(X(start), X(end)), Max(X(start), X(end)),
                                       USizeSub(X(end), X(start)), <<>>)
    ELSE [b |-> b, rs |-> <<>>]

delete_chars_bypass(b, start, end, mode) ==
    LET d == IF mode = ModeNone THEN delete_chars_none(b, start, end)
             ELSE delete_chars_rectangle(b, start, end)
        rs == Reverse(d.rs)
        b1 == [SetCached(d.b) EXCEPT !.pending = Some([rows |-> rs, mode |-> mode])]
    IN  IF d.b.panic THEN [b |-> d.b, ret |-> None]
        ELSE IF d.rs = <<>> THEN [b |-> d.b, ret |-> None]
        ELSE [b |-> IF Len(rs) = 1
                    THEN MarkUpdated(b1, Y(start), Y(start) + 1)
                    ELSE MarkUpdated(b1, Y(start), rows(b1)),
              ret |-> Some(rs)]

\* The loop of insert_chars_none over the middle rows rs[1 .. len-1)
RECURSIVE InsertMiddles(_, _, _, _)
InsertMiddles(b, at, middles, idx) ==
    IF idx >= Len(middles) \/ b.panic THEN b
    ELSE InsertMiddles(insert_row_bypass(b, <<0, Y(at) + idx + 1>>, middles[idx + 1]).b,
                       at, middles, idx + 1)

insert_chars_none(b, at, rs) ==
    IF Y(at) < rows(b) /\ rs # <<>>
    THEN LET r == b.rows[Y(at) + 1]
             first == rs[1]
             fits == X(at) <= Len(r)
             rest == IF fits /\ 1 < Len(rs) THEN Drop(r, X(at)) ELSE <<>>
             b1 == IF fits
                   THEN [SetCached(b) EXCEPT !.rows[Y(at) + 1] =
                            IF 1 < Len(rs) THEN RowAppend(Take(r, X(at)), first)
                            ELSE RowInsertSlice(r, X(at), first)]
                   ELSE b
             end1 == IF fits THEN <<X(at) + Len(first), Y(at)>> ELSE at
             b2 == InsertMiddles(SetCached(b1), at, SubSeq(rs, 2, Len(rs) - 1), 0)
             y == Y(at) + Len(rs) - 1
             b3 == insert_row_bypass(b2, <<0, y>>, rs[Len(rs)]).b
             b4 == append_row_bypass(b3, <<0, y>>, rest).b
         IN  IF 1 < Len(rs)
             THEN IF b3.panic THEN [b |-> b3, ret |-> None]
                  ELSE [b |-> b4, ret |-> Some(<<Len(rs[Len(rs)]), y>>)]
             ELSE [b |-> b1, ret |-> Some(end1)]
    ELSE [b |-> b, ret |-> None]

\* The loop of insert_chars_rectangle over the rows to insert
RECURSIVE InsertCharsRectangleLoop(_, _, _, _, _)
InsertCharsRectangleLoop(b, at, rs, idx, end) ==
    IF idx >= Len(rs) \/ b.panic THEN [b |-> b, ret |-> Some(end)]
    ELSE LET r0 == rs[idx + 1]
             y == idx + Y(at)
             b1 == IF y < rows(b)
                   THEN IF Len(b.rows[y + 1]) < X(at)
                        THEN [b EXCEPT !.rows[y + 1] =
                                 RowAppend(@, Repeat(SPACE, X(at) - Len(@)) \o r0)]
                        ELSE [b EXCEPT !.rows[y + 1] = RowInsertSlice(@, X(at), r0)]
                   ELSE insert_row_bypass(b, <<0, y>>, Repeat(SPACE, X(at)) \o r0).b
         IN  InsertCharsRectangleLoop(b1, at, rs, idx + 1, <<X(at) + Len(r0), y>>)

insert_chars_rectangle(b, at, rs) == InsertCharsRectangleLoop(b, at, rs, 0, at)

insert_chars_bypass(b, at, rs, mode) ==
    LET i == IF mode = ModeNone THEN insert_chars_none(b, at, rs)
             ELSE insert_chars_rectangle(b, at, rs)
    IN  IF i.b.panic THEN [b |-> i.b, ret |-> None]
        ELSE IF IsSome(i.ret)
        THEN LET end == Unwrap(i.ret)
             IN  IF at = end THEN [b |-> i.b, ret |-> None]
                 ELSE [b |-> IF Y(at) = Y(end)
                             THEN MarkUpdated(i.b, Y(at), Y(end) + 1)
                             ELSE MarkUpdated(i.b, Y(at), rows(i.b)),
                       ret |-> Some(end)]
        ELSE [b |-> i.b, ret |-> None]

\* &row.column()[startx..endx] panics unless startx <= endx <= len
RECURSIVE GetRangeNoneLoop(_, _, _, _, _)
GetRangeNoneLoop(b, start, end, idx, rs) ==
    IF idx > Y(end) - Y(start) THEN [ret |-> Some(rs), panic |-> FALSE]
    ELSE LET r == b.rows[Y(start) + idx + 1]
             startx == IF idx = 0 THEN X(start) ELSE 0
             endx == IF idx = Y(end) - Y(start) THEN X(end) ELSE Len(r)
         IN  IF startx > endx \/ endx > Len(r) THEN [ret |-> None, panic |-> TRUE]
             ELSE GetRangeNoneLoop(b, start, end, idx + 1, Append(rs, Slice(r, startx, endx)))

\* rows.get(start.y .. end.y + 1); rows.len() - 1 underflows on an empty slice:
\* a panic with overflow checks, and without them the loop runs over no row
get_range_none(b, start, end) ==
    IF Y(start) <= Y(end) + 1 /\ Y(end) + 1 <= rows(b)
    THEN IF Y(start) = Y(end) + 1
         THEN [ret |-> IF overflow_checks THEN None ELSE Some(<<>>), panic |-> overflow_checks]
         ELSE GetRangeNoneLoop(b, start, end, 0, <<>>)
    ELSE [ret |-> None, panic |-> FALSE]

RECURSIVE GetRangeRectangleLoop(_, _, _, _, _, _)
GetRangeRectangleLoop(b, ey, idx, start, end, rs) ==
    IF idx > ey THEN rs
    ELSE LET r == b.rows[idx + 1]
             length == end - start
         IN  GetRangeRectangleLoop(b, ey, idx + 1, start, end,
                 Append(rs, IF start < Len(r)
                            THEN Slice(r, start, Min(Len(r), end))
                                     \o Repeat(SPACE, length - (Min(Len(r), end) - start))
                            ELSE Repeat(SPACE, length)))

get_range_rectangle(b, start, end) ==
    IF Y(start) <= Y(end) + 1 /\ Y(end) + 1 <= rows(b)
    THEN [ret |-> Some(GetRangeRectangleLoop(b, Y(end), Y(start),
                           Min(X(start), X(end)), Max(X(start), X(end)), <<>>)),
          panic |-> FALSE]
    ELSE [ret |-> None, panic |-> FALSE]

get_range(b, start, end, mode) ==
    IF mode = ModeNone THEN get_range_none(b, start, end)
    ELSE get_range_rectangle(b, start, end)

copy_pending(b, start, end, mode) ==
    LET g == get_range(b, start, end, mode)
    IN  IF g.panic THEN Panic(b)
        ELSE [b EXCEPT !.pending =
                 IF IsSome(g.ret) THEN Some([rows |-> Unwrap(g.ret), mode |-> mode]) ELSE None]

----------------------------------------------------------------------------
(* buffer.rs : Buffer, the recording mutators, undo and save *)

\* A panic in the primitive leaves nothing to record
RecordIf(res, cur, op) ==
    IF res.b.panic THEN res
    ELSE IF IsSome(res.ret) THEN [b |-> record(res.b, cur, op), ret |-> res.ret]
    ELSE res

append_row(b, at, text) ==
    LET res == append_row_bypass(b, at, text)
    IN  RecordIf(res, at, OpAppend(IF IsSome(res.ret) THEN Unwrap(res.ret) ELSE at))

delete_row(b, at) ==
    LET res == delete_row_bypass(b, at)
    IN  RecordIf(res, at, OpDeleteRow(at, IF IsSome(res.ret) THEN Unwrap(res.ret) ELSE <<>>))

delete_char(b, at) ==
    LET res == delete_char_bypass(b, at)
    IN  RecordIf(res, at, OpDeleteChar(at, IF IsSome(res.ret) THEN Unwrap(res.ret) ELSE ""))

delete_chars(b, start, end, mode) ==
    LET res == delete_chars_bypass(b, start, end, mode)
    IN  RecordIf(res, start,
                 OpDeleteChars(start, IF IsSome(res.ret) THEN Unwrap(res.ret) ELSE <<>>, mode))

insert_row(b, at, text) ==
    LET res == insert_row_bypass(b, at, text)
    IN  IF res.b.panic THEN res
        ELSE [b |-> record(res.b, at, OpInsertRow(at)), ret |-> None]

insert_char(b, at, ch) ==
    RecordIf(insert_char_bypass(b, at, ch), at, OpInsertChar(at))

insert_chars(b, at, rs, mode) ==
    LET res == insert_chars_bypass(b, at, rs, mode)
    IN  RecordIf(res, at,
                 OpInsertChars(at, IF IsSome(res.ret) THEN Unwrap(res.ret) ELSE at, mode))

replace(b, at, length, text) ==
    LET res == replace_bypass(b, at, length, text)
    IN  RecordIf(res, at,
                 OpReplace(at, Len(text), IF IsSome(res.ret) THEN Unwrap(res.ret) ELSE <<>>))

paste_pending(b, at) ==
    IF IsSome(b.pending)
    THEN insert_chars(b, at, Unwrap(b.pending).rows, Unwrap(b.pending).mode)
    ELSE [b |-> b, ret |-> None]

shrink_row(b, at) ==
    LET res == shrink_row_bypass(b, at)
    IN  RecordIf(res, at, OpShrinkRow(at, IF IsSome(res.ret) THEN Unwrap(res.ret) ELSE <<>>))

split_row(b, at) ==
    LET res == split_row_bypass(b, at)
    IN  RecordIf(res, at, OpSplitRow(IF IsSome(res.ret) THEN Unwrap(res.ret) ELSE at))

squash_row(b, at) ==
    LET res == squash_row_bypass(b, at)
    IN  RecordIf(res, at, OpSquashRow(IF IsSome(res.ret) THEN Unwrap(res.ret) ELSE at))

\* The bypass inverse of a recorded Operation
UndoOperation(b, op) ==
    CASE op.tag = "Append" -> shrink_row_bypass(b, op.cord).b
      [] op.tag = "DeleteChar" ->
             insert_char_bypass(b, <<X(op.cord) - 1, Y(op.cord)>>, op.ch).b
      [] op.tag = "DeleteChars" -> insert_chars_bypass(b, op.cord, op.rows, op.mode).b
      [] op.tag = "DeleteRow" -> insert_row_bypass(b, op.cord, op.rows[1]).b
      [] op.tag = "InsertChar" ->
             delete_char_bypass(b, <<X(op.cord) + 1, Y(op.cord)>>).b
      [] op.tag = "InsertChars" -> delete_chars_bypass(b, op.cord, op.end, op.mode).b
      [] op.tag = "InsertRow" -> delete_row_bypass(b, op.cord).b
      [] op.tag = "Replace" -> replace_bypass(b, op.cord, op.length, op.rows[1]).b
      [] op.tag = "ShrinkRow" -> append_row_bypass(b, op.cord, op.rows[1]).b
      [] op.tag = "SplitRow" -> squash_row_bypass(b, op.cord).b
      [] op.tag = "SquashRow" -> split_row_bypass(b, op.cord).b

undo(b) ==
    LET rb == rollback(b)
    IN  IF IsSome(rb.ret)
        THEN [b |-> UndoOperation(SetCached(rb.b), Unwrap(rb.ret).op),
              ret |-> Some(Unwrap(rb.ret).cursor)]
        ELSE [b |-> b, ret |-> None]

\* Mutation: the ranges are kept
clear_updated_skipped(b) == b

\* Buffer::clear_updated
clear_updated(b) == [b EXCEPT !.updated = <<>>]

\* Buffer::updated
updated(b) == b.updated # <<>>

\* Buffer::row_updated
row_updated(b, index) ==
    \E i \in 1..Len(b.updated) : b.updated[i][1] <= index /\ index < b.updated[i][2]

\* Mutation: the flag is cleared whatever the outcome
save_as_unchecked(b, io_ok) == [b EXCEPT !.cached = FALSE]

\* save_as: io_ok is the outcome of File::create, the writes and the flush
save_as(b, io_ok) == IF io_ok THEN [b EXCEPT !.cached = FALSE] ELSE b

save(b, io_ok) == IF IsSome(b.filename) THEN save_as(b, io_ok) ELSE b

----------------------------------------------------------------------------
(* Inputs of the model *)

\* Coordinates handed to the mutators: in bounds and out of bounds
Coords == (0 .. MaxCoord) \X (0 .. MaxCoord)

\* Rows a loaded file may hold
RowPool == {r \in {<<>>, <<"a", "b">>, <<"a", "b", "a">>} : Len(r) <= MaxLen}

RECURSIVE SeqsUpTo(_, _)
SeqsUpTo(S, n) ==
    IF n = 0 THEN {<<>>}
    ELSE LET shorter == SeqsUpTo(S, n - 1)
         IN  shorter \cup {Append(q, e) : q \in {t \in shorter : Len(t) = n - 1}, e \in S}

InitialRows == SeqsUpTo(RowPool, MaxRows)

\* start <= end in (y, x) order, as Select::start and Select::end supply them
Ordered(start, end) ==
    Y(start) < Y(end) \/ (Y(start) = Y(end) /\ X(start) <= X(end))

\* Text handed to insert_row, append_row and replace
Texts == {<<>>, <<"c">>}

\* Rows handed to insert_chars
InsertRows == {<<>>, << <<>> >>, << <<"c">> >>, << <<"c">>, <<"d">> >>,
               << <<"c">>, <<>>, <<"d", "d">> >>}

Lengths == 0 .. MaxLen

NoCall == [op |-> "init", at |-> <<0, 0>>, end |-> <<0, 0>>, mode |-> ModeNone,
           text |-> <<>>, rs |-> <<>>, length |-> 0, ret |-> None,
           pre |-> BufferFrom(<<>>, None)]

CallOf(op, at, end, mode, text, rs, length, ret) ==
    [op |-> op, at |-> at, end |-> end, mode |-> mode, text |-> text, rs |-> rs,
     length |-> length, ret |-> ret, pre |-> content]

SelectDefault ==
    [mode |-> ModeNone, range |-> None, previous |-> None, enabled |-> FALSE,
     updated |-> FALSE]

----------------------------------------------------------------------------
(* editor.rs : Select.  range is None or Some(<<anchor, focus>>) *)

\* Select::start
SelectStart(sel) ==
    IF IsSome(sel.range)
    THEN LET s == Unwrap(sel.range)[1]
             e == Unwrap(sel.range)[2]
         IN  IF Y(s) < Y(e) THEN Some(s)
             ELSE IF Y(e) < Y(s) THEN Some(e)
             ELSE IF X(s) < X(e) THEN Some(s)
             ELSE Some(e)
    ELSE None

\* Mutation: end() answers the focus whatever the order
SelectEndFocus(sel) ==
    IF IsSome(sel.range) THEN Some(Unwrap(sel.range)[2]) ELSE None

\* Select::end
SelectEnd(sel) ==
    IF IsSome(sel.range)
    THEN LET s == Unwrap(sel.range)[1]
             e == Unwrap(sel.range)[2]
         IN  IF Y(s) < Y(e) THEN Some(e)
             ELSE IF Y(e) < Y(s) THEN Some(s)
             ELSE IF X(s) < X(e) THEN Some(e)
             ELSE Some(s)
    ELSE None

\* self.updated |= cur != *self
SelectTouched(cur, new) == [new EXCEPT !.updated = cur.updated \/ new # cur]

set_start(sel, c, mode) ==
    SelectTouched(sel, [sel EXCEPT !.mode = mode, !.previous = None,
                                   !.range = Some(<<c, c>>), !.enabled = TRUE])

\* range.as_mut().unwrap() panics when there is no range
SetEndPanics(sel) == sel.range = None

set_end(sel, c) ==
    IF SetEndPanics(sel) THEN sel
    ELSE SelectTouched(sel, [sel EXCEPT !.previous = Some(Unwrap(sel.range)[2]),
                                        !.range = Some(<<Unwrap(sel.range)[1], c>>)])

\* a disable that forgets the range and keeps the mode and the previous focus
disable_range_only(sel) ==
    SelectTouched(sel,
        IF ~sel.enabled
        THEN [sel EXCEPT !.range = None, !.enabled = FALSE]
        ELSE [sel EXCEPT !.enabled = FALSE])

disable(sel) ==
    SelectTouched(sel,
        IF ~sel.enabled
        THEN [sel EXCEPT !.mode = ModeNone, !.range = None, !.previous = None,
                         !.enabled = FALSE]
        ELSE [sel EXCEPT !.enabled = FALSE])

SelectClearUpdated(sel) == [sel EXCEPT !.updated = FALSE]

\* usize::MAX
USizeMax == USizeModulus - 1

\* a contiguous span that covers the first row of the range from column 0
xrange_none_from_0(sel, y) ==
    IF IsSome(SelectStart(sel)) /\ IsSome(SelectEnd(sel))
    THEN LET start == Unwrap(SelectStart(sel))
             end == Unwrap(SelectEnd(sel))
         IN  IF y < Y(start) \/ Y(end) < y THEN None
             ELSE IF Y(end) = y THEN Some(<<0, X(end)>>)
             ELSE Some(<<0, USizeMax>>)
    ELSE None

\* Select::xrange_none
xrange_none(sel, y) ==
    IF IsSome(SelectStart(sel)) /\ IsSome(SelectEnd(sel))
    THEN LET start == Unwrap(SelectStart(sel))
             end == Unwrap(SelectEnd(sel))
         IN  IF y < Y(start) THEN None
             ELSE IF y = Y(start)
             THEN IF Y(start) = Y(end) THEN Some(<<X(start), X(end)>>)
                  ELSE Some(<<X(start), USizeMax>>)
             ELSE IF Y(end) = y THEN Some(<<0, X(end)>>)
             ELSE IF Y(end) < y THEN None
             ELSE Some(<<0, USizeMax>>)
    ELSE None

\* Select::xrange_rectangle
xrange_rectangle(sel, y) ==
    IF IsSome(SelectStart(sel)) /\ IsSome(SelectEnd(sel))
    THEN LET start == Unwrap(SelectStart(sel))
             end == Unwrap(SelectEnd(sel))
         IN  IF Y(start) <= y /\ y <= Y(end)
             THEN Some(<<Min(X(start), X(end)), Max(X(start), X(end))>>)
             ELSE None
    ELSE None

\* Select::xrange
xrange(sel, y) ==
    IF ~sel.enabled THEN None
    ELSE IF sel.mode = ModeNone THEN xrange_none(sel, y)
    ELSE xrange_rectangle(sel, y)

ScreenDefault == [left0 |-> 0, top0 |-> 0, height |-> 0, width |-> 0, updated |-> FALSE]

\* The main loop waits in Editor::handle_events; no Prompt is open.
\* at: where control stands; chars: the text typed into the prompt;
\* source: the cursor when the prompt opened; value: the text the prompt
\* starts with; keywords: Replace.keywords; rows: Editor::goto's rows
\* keyword: the text Replace::replace read first; replaced: where the last
\* Buffer::replace of the open Replace prompt took place, None before the first
PromptDefault ==
    [at |-> "handle_events", chars |-> <<>>, source |-> <<0, 0>>, value |-> <<>>,
     keyword |-> <<>>, keywords |-> None, rows |-> 0, replaced |-> None]

----------------------------------------------------------------------------
(* Specification SpecBuffer: a Buffer loaded from a file, every mutator      *)
(* called with any coordinate                                                *)

BufInit ==
    /\ \/ content = BufferFrom(<<>>, None)
       \/ \E rs \in InitialRows : content = BufferFrom(rs, Some("f"))
    /\ saved = content.rows
    /\ cursor = CursorDefault
    /\ select = SelectDefault
    /\ prompt = PromptDefault
    /\ screen = ScreenDefault
    /\ row = <<>>
    /\ last = NoCall
    /\ steps = 0
    /\ trail = <<>>
    /\ overflow_checks \in BOOLEAN
    /\ panicked = FALSE

\* One call on the Buffer: res is what the call computes from content.  The
\* variable last records the final call of a run (watched); the calls before
\* it are not recorded, so runs that differ only in how they reached a buffer
\* share their states.
CanCall == ~panicked /\ steps < MaxSteps /\ last.op = "init"

BufCall(call, res) ==
    /\ steps' = steps + 1
    /\ \/ last' = call
       \/ steps + 1 < MaxSteps /\ last' = last
    /\ IF res.b.panic
       THEN panicked' = TRUE /\ content' = content
       ELSE panicked' = FALSE /\ content' = res.b
    /\ UNCHANGED <<cursor, select, screen, row, saved, prompt, trail, overflow_checks>>

At(op, at, res) == BufCall(CallOf(op, at, <<0, 0>>, ModeNone, <<>>, <<>>, 0, res.ret), res)
AtText(op, at, text, res) ==
    BufCall(CallOf(op, at, <<0, 0>>, ModeNone, text, <<>>, 0, res.ret), res)
AtRange(op, start, end, mode, res) ==
    BufCall(CallOf(op, start, end, mode, <<>>, <<>>, 0, res.ret), res)
AtRows(op, at, rs, mode, res) ==
    BufCall(CallOf(op, at, <<0, 0>>, mode, <<>>, rs, 0, res.ret), res)
AtLength(op, at, length, text, res) ==
    BufCall(CallOf(op, at, <<0, 0>>, ModeNone, text, <<>>, length, res.ret), res)

\* A step is one call of a method of Buffer, with any arguments
BufNext ==
    \/ CanCall /\ \E at \in Coords, text \in Texts :
       AtText("append_row", at, text, append_row(content, at, text))
    \/ CanCall /\ \E at \in Coords, text \in Texts :
       AtText("append_row_bypass", at, text, append_row_bypass(content, at, text))
    \/ CanCall /\ \E at \in Coords : At("delete_row", at, delete_row(content, at))
    \/ CanCall /\ \E at \in Coords :
       At("delete_row_bypass", at, delete_row_bypass(content, at))
    \/ CanCall /\ \E at \in Coords : At("delete_char", at, delete_char(content, at))
    \/ CanCall /\ \E at \in Coords :
       At("delete_char_bypass", at, delete_char_bypass(content, at))
    \/ CanCall /\ \E start \in Coords, end \in Coords, mode \in SelectModes :
       AtRange("delete_chars", start, end, mode, delete_chars(content, start, end, mode))
    \/ CanCall /\ \E start \in Coords, end \in Coords, mode \in SelectModes :
       AtRange("delete_chars_bypass", start, end, mode,
               delete_chars_bypass(content, start, end, mode))
    \/ CanCall /\ \E at \in Coords, text \in Texts :
       AtText("insert_row", at, text, insert_row(content, at, text))
    \/ CanCall /\ \E at \in Coords, text \in Texts :
       AtText("insert_row_bypass", at, text, insert_row_bypass(content, at, text))
    \/ CanCall /\ \E at \in Coords :
       AtText("insert_char", at, <<"c">>, insert_char(content, at, "c"))
    \/ CanCall /\ \E at \in Coords :
       AtText("insert_char_bypass", at, <<"c">>, insert_char_bypass(content, at, "c"))
    \/ CanCall /\ \E at \in Coords, rs \in InsertRows, mode \in SelectModes :
       AtRows("insert_chars", at, rs, mode, insert_chars(content, at, rs, mode))
    \/ CanCall /\ \E at \in Coords, rs \in InsertRows, mode \in SelectModes :
       AtRows("insert_chars_bypass", at, rs, mode, insert_chars_bypass(content, at, rs, mode))
    \/ CanCall /\ \E at \in Coords, length \in Lengths, text \in Texts :
       AtLength("replace", at, length, text, replace(content, at, length, text))
    \/ CanCall /\ \E at \in Coords, length \in Lengths, text \in Texts :
       AtLength("replace_bypass", at, length, text, replace_bypass(content, at, length, text))
    \/ CanCall /\ \E at \in Coords :
       At("paste_pending", at, paste_pending(content, at))
    \/ CanCall /\ \E at \in Coords : At("shrink_row", at, shrink_row(content, at))
    \/ CanCall /\ \E at \in Coords :
       At("shrink_row_bypass", at, shrink_row_bypass(content, at))
    \/ CanCall /\ \E at \in Coords : At("split_row", at, split_row(content, at))
    \/ CanCall /\ \E at \in Coords :
       At("split_row_bypass", at, split_row_bypass(content, at))
    \/ CanCall /\ \E at \in Coords : At("squash_row", at, squash_row(content, at))
    \/ CanCall /\ \E at \in Coords :
       At("squash_row_bypass", at, squash_row_bypass(content, at))
    \/ CanCall /\ At("undo", <<0, 0>>, undo(content))
    \/ CanCall /\ \E start \in Coords, end \in Coords, mode \in SelectModes :
       /\ Ordered(start, end)
       /\ AtRange("copy_pending", start, end, mode,
               [b |-> copy_pending(content, start, end, mode), ret |-> None])
    \/ CanCall /\ At("clear_updated", <<0, 0>>, [b |-> clear_updated(content), ret |-> None])
    \* save(): on success the rows on disk are the rows of the buffer; without
    \* a filename nothing is tried and Ok is returned
    \/ CanCall /\ \E io_ok \in BOOLEAN :
       /\ steps' = steps + 1
       /\ \/ last' = CallOf("save", <<0, 0>>, <<0, 0>>, ModeNone, <<>>, <<>>, 0,
                            IF io_ok \/ content.filename = None
                            THEN Some("Ok") ELSE Some("Err"))
          \/ steps + 1 < MaxSteps /\ last' = last
       /\ content' = save(content, io_ok)
       /\ saved' = IF io_ok /\ IsSome(content.filename) THEN content.rows ELSE saved
       /\ UNCHANGED <<cursor, select, screen, row, prompt, trail, overflow_checks, panicked>>

SpecBuffer == BufInit /\ [][BufNext]_vars

----------------------------------------------------------------------------
(* Claims about the Buffer, checked on the watched call of SpecBuffer *)

RecordingOps ==
    {"append_row", "delete_row", "delete_char", "delete_chars", "insert_row",
     "insert_char", "insert_chars", "replace", "paste_pending", "shrink_row",
     "split_row", "squash_row"}

BypassOps ==
    {"append_row_bypass", "delete_row_bypass", "delete_char_bypass",
     "delete_chars_bypass", "insert_row_bypass", "insert_char_bypass",
     "insert_chars_bypass", "replace_bypass", "shrink_row_bypass",
     "split_row_bypass", "squash_row_bypass"}

\* The watched call returned normally
Returned(op) == last.op = op /\ ~panicked

\* The call appended exactly one entry to the history it found
AppendedOne ==
    /\ Len(content.history) = Len(last.pre.history) + 1
    /\ Front(content.history) = last.pre.history

\* The primitive of the call reported success (insert_row cannot fail)
ReportedSuccess == IsSome(last.ret) \/ last.op = "insert_row"

\* at is a position of the buffer: a row, and a column of it or its end
InBoundsAt(b, at) == Y(at) < rows(b) /\ X(at) <= row_char_len(b, at)

\* C2: a recording mutator that succeeds appends exactly one history entry
\* (paste_pending and the multi-row insert_chars / delete_chars included) and
\* one that fails appends none; a bypass mutator appends none; undo on a
\* non-empty history removes exactly the last entry and appends none; undo on
\* an empty history returns None and removes nothing.
C2_HistoryLength ==
    ~panicked =>
        /\ last.op \in RecordingOps =>
               IF ReportedSuccess THEN AppendedOne
               ELSE content.history = last.pre.history
        /\ last.op \in BypassOps => content.history = last.pre.history
        /\ last.op = "undo" =>
               IF last.pre.history # <<>>
               THEN /\ content.history = Front(last.pre.history)
                    /\ IsSome(last.ret)
               ELSE /\ last.ret = None
                    /\ content.history = last.pre.history

\* A paste of several rows, built from several bypass primitives, has recorded
\* one entry on top of the one that was there
C2_Witness ==
    /\ Returned("paste_pending")
    /\ rows(content) > rows(last.pre)
    /\ Len(last.pre.history) = 1
    /\ Len(content.history) = 2

\* The recording mutator call c has its arguments inside the buffer c.pre
InBoundsOf(c) ==
    CASE c.op = "insert_row" -> Y(c.at) <= rows(c.pre)
      [] c.op = "delete_chars" ->
             /\ InBoundsAt(c.pre, c.at)
             /\ InBoundsAt(c.pre, c.end)
             /\ Ordered(c.at, c.end)
             /\ X(c.at) <= X(c.end)
      [] c.op = "replace" ->
             /\ InBoundsAt(c.pre, c.at)
             /\ X(c.at) + c.length <= row_char_len(c.pre, c.at)
      [] OTHER -> InBoundsAt(c.pre, c.at)

InBoundsCall == InBoundsOf(last)

\* C3: a recording mutator called with in-bounds arguments records a history
\* entry if and only if the call changed the rows.
C3_RecordsIffChanged ==
    (~panicked /\ last.op \in RecordingOps /\ InBoundsCall) =>
        (AppendedOne <=> content.rows # last.pre.rows)

\* C4: a mutator that changes the rows leaves cached() true, so that
\* cached() = false implies the rows are those of the last save or of the load.
C4_DirtyFlag ==
    /\ (~panicked /\ last.op \in RecordingOps \cup BypassOps \cup {"undo"}
           /\ content.rows # last.pre.rows) => content.cached
    /\ ~content.cached => content.rows = saved

\* The mutator was called with a coordinate or length outside the buffer
OutOfBoundsCall ==
    CASE last.op \in {"insert_row", "insert_row_bypass"} -> Y(last.at) > rows(last.pre)
      [] last.op \in {"delete_chars", "delete_chars_bypass"} ->
             \/ Y(last.at) >= rows(last.pre)
             \/ Y(last.end) >= rows(last.pre)
             \/ X(last.at) > row_char_len(last.pre, last.at)
             \/ X(last.end) > row_char_len(last.pre, last.end)
             \/ (Y(last.at) = Y(last.end) /\ X(last.end) < X(last.at))
      [] last.op \in {"replace", "replace_bypass"} ->
             \/ Y(last.at) >= rows(last.pre)
             \/ X(last.at) + last.length > row_char_len(last.pre, last.at)
      [] last.op \in {"squash_row", "squash_row_bypass", "delete_row", "delete_row_bypass",
                      "append_row", "append_row_bypass"} ->
             Y(last.at) >= rows(last.pre)
      [] last.op \in (RecordingOps \cup BypassOps) \ {"paste_pending"} ->
             \/ Y(last.at) >= rows(last.pre)
             \/ X(last.at) > row_char_len(last.pre, last.at)
      [] OTHER -> FALSE

\* C5: a mutator called with an out-of-bounds coordinate or length does not
\* panic, returns None / unit and leaves the rows unchanged.
C5_OutOfBoundsNoOp ==
    OutOfBoundsCall =>
        /\ ~panicked
        /\ last.ret = None
        /\ content.rows = last.pre.rows

C7Ops ==
    {"append_row", "delete_row", "delete_char", "delete_chars", "insert_char",
     "insert_chars", "replace", "shrink_row", "split_row", "squash_row"}

\* C7: a mutator that reports failure (returns None, records no history
\* entry) leaves rows, cached(), the updated ranges and the history as they were.
C7_FailureChangesNothing ==
    (~panicked /\ last.op \in C7Ops /\ last.ret = None
        /\ content.history = last.pre.history) =>
        /\ content.rows = last.pre.rows
        /\ content.cached = last.pre.cached
        /\ content.updated = last.pre.updated

----------------------------------------------------------------------------
(* SpecUndo: recording mutators that succeed on in-bounds arguments, and undo *)

UndoInit == BufInit

CanRecord == ~panicked /\ Len(trail) < MaxUndoDepth /\ steps < MaxUndoSteps

\* A recording mutator called inside the buffer that succeeded: it recorded
\* a history entry.  trail keeps the rows it found and the coordinate it got.
Recorded(call, res) ==
    /\ InBoundsOf(call)
    /\ ~res.b.panic
    /\ Len(res.b.history) = Len(content.history) + 1
    /\ content' = res.b
    /\ trail' = Append(trail, [rows |-> content.rows, at |-> call.at])
    /\ last' = [call EXCEPT !.pre = NoCall.pre]
    /\ steps' = steps + 1
    /\ UNCHANGED <<cursor, select, screen, row, saved, prompt, overflow_checks, panicked>>

RecAt(op, at, res) ==
    Recorded(CallOf(op, at, <<0, 0>>, ModeNone, <<>>, <<>>, 0, res.ret), res)

\* A step is one recording mutator called in bounds, or undo()
UndoNext ==
    \/ CanRecord /\ \E at \in Coords, text \in Texts :
       LET res == append_row(content, at, text)
       IN  Recorded(CallOf("append_row", at, <<0, 0>>, ModeNone, text, <<>>, 0, res.ret), res)
    \/ CanRecord /\ \E at \in Coords : RecAt("delete_row", at, delete_row(content, at))
    \/ CanRecord /\ \E at \in Coords :
       RecAt("delete_char", at, delete_char(content, at))
    \/ CanRecord /\ \E start \in Coords, end \in Coords, mode \in SelectModes :
       LET res == delete_chars(content, start, end, mode)
       IN  Recorded(CallOf("delete_chars", start, end, mode, <<>>, <<>>, 0, res.ret), res)
    \/ CanRecord /\ \E at \in Coords, text \in Texts :
       LET res == insert_row(content, at, text)
       IN  Recorded(CallOf("insert_row", at, <<0, 0>>, ModeNone, text, <<>>, 0, res.ret), res)
    \/ CanRecord /\ \E at \in Coords :
       RecAt("insert_char", at, insert_char(content, at, "c"))
    \/ CanRecord /\ \E at \in Coords, rs \in InsertRows, mode \in SelectModes :
       LET res == insert_chars(content, at, rs, mode)
       IN  Recorded(CallOf("insert_chars", at, <<0, 0>>, mode, <<>>, rs, 0, res.ret), res)
    \/ CanRecord /\ \E at \in Coords, length \in Lengths, text \in Texts :
       LET res == replace(content, at, length, text)
       IN  Recorded(CallOf("replace", at, <<0, 0>>, ModeNone, text, <<>>, length, res.ret), res)
    \/ CanRecord /\ \E at \in Coords :
       RecAt("paste_pending", at, paste_pending(content, at))
    \/ CanRecord /\ \E at \in Coords : RecAt("shrink_row", at, shrink_row(content, at))
    \/ CanRecord /\ \E at \in Coords : RecAt("split_row", at, split_row(content, at))
    \/ CanRecord /\ \E at \in Coords : RecAt("squash_row", at, squash_row(content, at))
    \* undo() of the latest recorded call; last keeps what the call found
    \/ /\ ~panicked /\ trail # <<>> /\ steps < MaxUndoSteps
       /\ LET res == undo(content)
              top == trail[Len(trail)]
          IN  /\ last' = [NoCall EXCEPT !.op = "undo", !.at = top.at, !.rs = top.rows,
                                         !.ret = res.ret]
              /\ IF res.b.panic
                 THEN panicked' = TRUE /\ content' = content
                 ELSE panicked' = FALSE /\ content' = res.b
       /\ trail' = Front(trail)
       /\ steps' = steps + 1
       /\ UNCHANGED <<cursor, select, screen, row, saved, prompt, overflow_checks>>

SpecUndo == UndoInit /\ [][UndoNext]_vars

\* C1: after a recording mutator has succeeded on in-bounds arguments, undo()
\* does not panic, puts the rows back exactly as that mutator found them and
\* returns the coordinate passed to it as at; n such calls followed by n
\* undos restore the original rows.  Rectangle mode included.
C1_UndoInverts ==
    last.op = "undo" =>
        /\ ~panicked
        /\ content.rows = last.rs
        /\ last.ret = Some(last.at)

----------------------------------------------------------------------------
(* SpecRow: the mutators of a free-standing Row *)

RowValues == UNION {[1..n -> {"a", "b"}] : n \in 0..MaxRowLen}
Indexes == 0..MaxIndex
Others == {<<>>, <<"c">>, <<"c", "d">>}

RowNoCall ==
    [op |-> "init", index |-> 0, end |-> 0, length |-> 0, other |-> <<>>, ret |-> None,
     pre |-> <<>>]

RowInit ==
    /\ row \in RowValues
    /\ last = RowNoCall
    /\ content = BufferFrom(<<>>, None)
    /\ saved = <<>>
    /\ cursor = CursorDefault
    /\ select = SelectDefault
    /\ prompt = PromptDefault
    /\ screen = ScreenDefault
    /\ steps = 0
    /\ trail = <<>>
    /\ overflow_checks \in BOOLEAN
    /\ panicked = FALSE

CanCallRow == ~panicked /\ steps < MaxRowSteps

\* One call on the row: a panic aborts the process and the row stays as it was
RowCall(call, r, panic) ==
    /\ last' = [call EXCEPT !.pre = row]
    /\ steps' = steps + 1
    /\ panicked' = panic
    /\ row' = IF panic THEN row ELSE r
    /\ UNCHANGED <<content, cursor, select, screen, saved, prompt, trail, overflow_checks>>

\* A step is one call of a mutator of Row, with any index
RowNext ==
    \/ CanCallRow /\ \E other \in Others :
       /\ Len(row) + Len(other) <= MaxRowLen + 2
       /\ RowCall([RowNoCall EXCEPT !.op = "append", !.other = other],
                  RowAppend(row, other), FALSE)
    \/ CanCallRow /\ \E index \in Indexes :
       RowCall([RowNoCall EXCEPT !.op = "insert", !.index = index],
               RowInsert(row, index, "c"), FALSE)
    \/ CanCallRow /\ \E index \in Indexes, other \in Others :
       RowCall([RowNoCall EXCEPT !.op = "insert_slice", !.index = index, !.other = other],
               RowInsertSlice(row, index, other), FALSE)
    \/ CanCallRow /\ \E index \in Indexes :
       LET res == RowRemove(row, index)
       IN  RowCall([RowNoCall EXCEPT !.op = "remove", !.index = index, !.ret = res.ret],
                   res.row, FALSE)
    \/ CanCallRow /\ \E start \in Indexes, end \in Indexes :
       LET res == RowRemoveRange(row, start, end)
       IN  RowCall([RowNoCall EXCEPT !.op = "remove_range", !.index = start, !.end = end,
                                     !.ret = res.ret],
                   res.row, res.panic)
    \/ CanCallRow /\ \E index \in Indexes, length \in Lengths, other \in Others :
       LET res == RowReplace(row, index, length, other)
       IN  RowCall([RowNoCall EXCEPT !.op = "replace", !.index = index, !.length = length,
                                     !.other = other, !.ret = res.ret],
                   res.row, res.panic)
    \/ CanCallRow /\ \E at \in Indexes :
       LET res == RowSplitOff(row, at)
       IN  RowCall([RowNoCall EXCEPT !.op = "split_off", !.index = at,
                                     !.ret = IF res.panic THEN None ELSE Some(res.ret)],
                   res.row, res.panic)

SpecRow == RowInit /\ [][RowNext]_vars

\* The index or the (well-formed) range of the call lies beyond the row
RowOutOfBounds ==
    CASE last.op \in {"insert", "insert_slice", "split_off"} -> last.index > Len(last.pre)
      [] last.op = "remove" -> last.index >= Len(last.pre)
      [] last.op = "remove_range" -> last.index <= last.end /\ last.end > Len(last.pre)
      [] last.op = "replace" -> last.index + last.length > Len(last.pre)
      [] OTHER -> FALSE

\* C6: Row::insert, insert_slice, remove, remove_range, replace and
\* split_off, called with an index or range beyond the row's length, do not
\* panic, leave the row unchanged and return no value.
C6_RowOutOfBounds ==
    RowOutOfBounds =>
        /\ ~panicked
        /\ row = last.pre
        /\ last.ret = None

----------------------------------------------------------------------------
(* SpecCursor: the mutators of a Cursor over a fixed Buffer *)

CursorRowPool == {<<>>, <<TAB, "a">>, <<WIDE, "a", "b">>}
CursorCoords == (0..MaxCursorCoord) \X (0..MaxCursorCoord)

CursorNoCall == [op |-> "init", at |-> <<0, 0>>, pre |-> <<0, 0>>, ret |-> FALSE]

\* y <= rows() and x <= row_char_len(y)
Clamped(c, b) == Y(c) <= rows(b) /\ X(c) <= row_char_len(b, c)

\* Cursor::from builds a cursor from any coordinate
CursorInit ==
    /\ \E rs \in SeqsUpTo(CursorRowPool, MaxCursorRows) : content = BufferFrom(rs, None)
    /\ cursor \in CursorCoords
    /\ \E h \in 0..MaxHeight : screen = [ScreenDefault EXCEPT !.height = h]
    /\ last = CursorNoCall
    /\ saved = content.rows
    /\ select = SelectDefault
    /\ prompt = PromptDefault
    /\ row = <<>>
    /\ steps = 0
    /\ trail = <<>>
    /\ overflow_checks \in BOOLEAN
    /\ panicked = FALSE

\* One mutator call: it returns whether the cursor moved
CursorCall(op, at, c, panic) ==
    /\ panicked' = panic
    /\ cursor' = IF panic THEN cursor ELSE c
    /\ last' = [op |-> op, at |-> at, pre |-> cursor, ret |-> ~panic /\ c # cursor]
    /\ UNCHANGED <<content, select, screen, row, saved, steps, prompt, trail, overflow_checks>>

\* A step is one call of a mutator of Cursor
CursorNext ==
    \/ ~panicked /\ CursorCall("move_down", <<0, 0>>, move_down(cursor, content), FALSE)
    \/ ~panicked /\ CursorCall("move_up", <<0, 0>>, move_up(cursor, content), FALSE)
    \/ ~panicked /\ CursorCall("move_left", <<0, 0>>, move_left(cursor, content), FALSE)
    \/ ~panicked /\ CursorCall("move_right", <<0, 0>>, move_right(cursor, content), FALSE)
    \/ ~panicked /\
       CursorCall("move_down_render", <<0, 0>>, move_down_render(cursor, content),
                  RenderPanics(cursor, content))
    \/ ~panicked /\
       CursorCall("move_up_render", <<0, 0>>, move_up_render(cursor, content),
                  RenderPanics(cursor, content))
    \/ ~panicked /\
       CursorCall("move_down_screen", <<0, 0>>, move_down_screen(cursor, content, screen), FALSE)
    \/ ~panicked /\
       CursorCall("move_up_screen", <<0, 0>>, move_up_screen(cursor, content, screen), FALSE)
    \/ ~panicked /\ CursorCall("move_to_x0", <<0, 0>>, move_to_x0(cursor), FALSE)
    \/ ~panicked /\ CursorCall("move_to_xmax", <<0, 0>>, move_to_xmax(cursor, content), FALSE)
    \/ ~panicked /\ \E at \in CursorCoords : CursorCall("set", at, CursorSet(cursor, content, at), FALSE)
    \/ ~panicked /\ \E x \in 0..MaxCursorCoord :
       CursorCall("set_x", <<x, 0>>, CursorSetX(cursor, content, x), FALSE)
    \/ ~panicked /\ \E y \in 0..MaxCursorCoord :
       CursorCall("set_y", <<0, y>>, CursorSetY(cursor, content, y), FALSE)

SpecCursor == CursorInit /\ [][CursorNext]_vars

\* C8: a Cursor mutator called on a cursor with y <= rows() and
\* x <= row_char_len(y) leaves a cursor with y <= rows() and
\* x <= row_char_len(y), and does not panic; set and set_y establish this from
\* any cursor and any input coordinate, set_x from any input x.
C8_CursorClamp ==
    /\ (last.op # "init" /\ Clamped(last.pre, content)) =>
           ~panicked /\ Clamped(cursor, content)
    /\ last.op \in {"set", "set_y"} => Clamped(cursor, content)

\* set was handed a coordinate beyond the last row and beyond the row's end,
\* and a move over rows of different lengths pulled x back
C8_Witness ==
    \/ /\ last.op = "set"
       /\ Y(last.at) > rows(content)
       /\ ~Clamped(last.pre, content)
       /\ cursor = <<0, rows(content)>>
    \/ /\ last.op \in {"move_down", "move_up", "move_down_screen"}
       /\ Clamped(last.pre, content)
       /\ X(cursor) < X(last.pre)

----------------------------------------------------------------------------
(* SpecSelect: a Select driven with any anchor and any focus *)

SelectCoords == (0..MaxSelectCoord) \X (0..MaxSelectCoord)

\* anchor: the anchor of the range the call found, if any
SelectNoCall == [op |-> "init", at |-> <<0, 0>>, anchor |-> None]

SelectInit ==
    /\ select = SelectDefault
    /\ prompt = PromptDefault
    /\ last = SelectNoCall
    /\ content = BufferFrom(<<>>, None)
    /\ saved = <<>>
    /\ cursor = CursorDefault
    /\ screen = ScreenDefault
    /\ row = <<>>
    /\ steps = 0
    /\ trail = <<>>
    /\ overflow_checks \in BOOLEAN
    /\ panicked = FALSE

SelectCall(op, at, sel, panic) ==
    /\ panicked' = panic
    /\ select' = IF panic THEN select ELSE sel
    /\ last' = [op |-> op, at |-> at,
                anchor |-> IF IsSome(select.range) THEN Some(Unwrap(select.range)[1])
                           ELSE None]
    /\ UNCHANGED <<content, cursor, screen, row, saved, steps, prompt, trail, overflow_checks>>

\* A step is one call of a method of Select
SelectNext ==
    \/ ~panicked /\ \E c \in SelectCoords, mode \in SelectModes :
       SelectCall("set_start", c, set_start(select, c, mode), FALSE)
    \/ ~panicked /\ \E c \in SelectCoords :
       SelectCall("set_end", c, set_end(select, c), SetEndPanics(select))
    \/ ~panicked /\ SelectCall("disable", <<0, 0>>, disable(select), FALSE)
    \/ ~panicked /\ SelectCall("clear_updated", <<0, 0>>, SelectClearUpdated(select), FALSE)

SpecSelect == SelectInit /\ [][SelectNext]_vars

\* C10: set_start makes its argument the anchor and the focus, set_end makes
\* its argument the focus and keeps the anchor; in every state with a range,
\* start() and end() are the anchor and the focus in some order and
\* start() <= end() in (y, x) lexicographic order.
C10_SelectionOrdering ==
    /\ (last.op = "set_start" /\ ~panicked) => select.range = Some(<<last.at, last.at>>)
    /\ (last.op = "set_end" /\ ~panicked) =>
           select.range = Some(<<Unwrap(last.anchor), last.at>>)
    /\ IF IsSome(select.range)
       THEN LET anchor == Unwrap(select.range)[1]
                focus == Unwrap(select.range)[2]
                s == SelectStart(select)
                e == SelectEnd(select)
            IN  /\ IsSome(s) /\ IsSome(e)
                /\ \/ Unwrap(s) = anchor /\ Unwrap(e) = focus
                   \/ Unwrap(s) = focus /\ Unwrap(e) = anchor
                /\ Ordered(Unwrap(s), Unwrap(e))
       ELSE SelectStart(select) = None /\ SelectEnd(select) = None

\* set_end has put the focus before the anchor, on an earlier row or on the
\* same row at a smaller x, and start() answers the focus
C10_Witness ==
    /\ last.op = "set_end" /\ ~panicked
    /\ LET anchor == Unwrap(select.range)[1]
           focus == Unwrap(select.range)[2]
       IN  /\ focus = last.at
           /\ focus # anchor
           /\ Ordered(focus, anchor)
           /\ Y(focus) = Y(anchor)
           /\ SelectStart(select) = Some(focus)
           /\ SelectEnd(select) = Some(anchor)

----------------------------------------------------------------------------
(* screen.rs : Screen, the viewport.  height and width are at least 1: the   *)
(* terminal has at least 3 rows and 1 column                                 *)

bottom(s) == s.top0 + (s.height - 1)

right(s) == s.left0 + (s.width - 1)

\* self.updated |= cur != *self
ScreenTouched(cur, new) == [new EXCEPT !.updated = cur.updated \/ new # cur]

force_update(s) == [s EXCEPT !.updated = TRUE]

\* Screen::move_down
ScreenMoveDown(s, b) ==
    ScreenTouched(s,
        IF s.height < rows(b)
        THEN LET s1 == [s EXCEPT !.top0 = @ + s.height]
             IN  IF rows(b) < bottom(s1)
                 THEN [s1 EXCEPT !.top0 = rows(b) - (s.height - 1)]
                 ELSE s1
        ELSE s)

\* Screen::move_up
ScreenMoveUp(s) ==
    ScreenTouched(s, [s EXCEPT !.top0 = IF s.height < @ THEN @ - s.height ELSE 0])

\* a fit that puts a row below the viewport on its first line
fit_to_top(s, b, pos) ==
    LET x == X(pos)
        y == Y(pos)
        s1 == IF y < s.top0 THEN [s EXCEPT !.top0 = y]
              ELSE IF bottom(s) < y THEN [s EXCEPT !.top0 = y]
              ELSE s
        s2 == IF x < s1.left0 THEN [s1 EXCEPT !.left0 = x]
              ELSE IF right(s1) <= x
              THEN [s1 EXCEPT !.left0 =
                       IF y < rows(b)
                       THEN USizeSub(x, USizeSub(s1.width, RowLastCharWidth(b.rows[y + 1])))
                       ELSE 0]
              ELSE s1
    IN  ScreenTouched(s, s2)

\* Screen::fit.  x - (width - last_char_width) is usize arithmetic: it wraps
\* in a build without overflow checks
fit(s, b, pos) ==
    LET x == X(pos)
        y == Y(pos)
        s1 == IF y < s.top0 THEN [s EXCEPT !.top0 = y]
              ELSE IF bottom(s) < y THEN [s EXCEPT !.top0 = y - (s.height - 1)]
              ELSE s
        s2 == IF x < s1.left0 THEN [s1 EXCEPT !.left0 = x]
              ELSE IF right(s1) <= x
              THEN [s1 EXCEPT !.left0 =
                       IF y < rows(b)
                       THEN USizeSub(x, USizeSub(s1.width, RowLastCharWidth(b.rows[y + 1])))
                       ELSE 0]
              ELSE s1
    IN  ScreenTouched(s, s2)

\* One of the two subtractions of Screen::fit goes below zero: a panic in a
\* build with overflow checks
FitUnderflows(s, b, pos) ==
    /\ X(pos) >= s.left0
    /\ right(s) <= X(pos)
    /\ Y(pos) < rows(b)
    /\ LET last_char_width == RowLastCharWidth(b.rows[Y(pos) + 1])
       IN  s.width < last_char_width \/ X(pos) < s.width - last_char_width

\* Screen::resize: two lines are the status bar and the message bar
ScreenResize(s, height, width) ==
    [s EXCEPT !.height = height - 2, !.width = width, !.updated = TRUE]

\* resize_screen: size is what Terminal::get_screen_size answers, (width, height)
resize_screen(s, size) ==
    IF s.width # size[1] \/ s.height # size[2]
    THEN ScreenResize(s, size[2], size[1])
    ELSE s

\* Row::render: the row with every tab expanded to spaces
RECURSIVE RenderFrom(_, _)
RenderFrom(chars, out) ==
    IF chars = <<>> THEN out
    ELSE IF Head(chars) = TAB
         THEN RenderFrom(Tail(chars),
                         out \o Repeat(SPACE, TAB_STOP - (RowWidth(out) % TAB_STOP)))
         ELSE RenderFrom(Tail(chars), Append(out, Head(chars)))

RowRender(r) == RenderFrom(r, <<>>)

\* Row::shrink_width: drops characters from the front up to the first index
\* whose prefix is at least min_width wide; ret is the width dropped
shrink_width(r, min_width) ==
    IF RowWidth(r) <= min_width THEN [row |-> <<>>, ret |-> RowWidth(r)]
    ELSE LET hits == {i \in 0..(Len(r) - 1) : min_width <= RowWidthRange(r, 0, i)}
         IN  IF hits = {} THEN [row |-> r, ret |-> 0]
             ELSE LET index == CHOOSE i \in hits : \A j \in hits : i <= j
                  IN  [row |-> Drop(r, index), ret |-> RowWidthRange(r, 0, index)]

\* Row::truncate_width: cuts the row before the first character that ends
\* beyond max_width; ret is the width kept
truncate_width(r, max_width) ==
    LET hits == {i \in 0..(Len(r) - 1) : max_width < RowWidthRange(r, 0, i + 1)}
        kept == IF hits = {} THEN r
                ELSE Take(r, CHOOSE i \in hits : \A j \in hits : i <= j)
    IN  [row |-> kept, ret |-> RowWidth(kept)]

\* Row::slice_width(start..end)
slice_width(r, start, end) ==
    LET sh == shrink_width(RowRender(r), start)
        padded == IF start < sh.ret THEN Repeat(SPACE, sh.ret - start) \o sh.row ELSE sh.row
        tr == truncate_width(padded, end - start)
    IN  tr.row \o Repeat(SPACE, (end - start) - tr.ret)

\* Screen::draw ends with updated = false; what it asks of the terminal is
\* DrawCalls
draw(s) == [s EXCEPT !.updated = FALSE]

\* Select::changes
changes(sel, y) ==
    IF IsSome(sel.range)
    THEN IF Y(Unwrap(SelectStart(sel))) <= y /\ y <= Y(Unwrap(SelectEnd(sel))) THEN TRUE
         ELSE IF IsSome(sel.previous) THEN Y(Unwrap(sel.previous)) = y
         ELSE FALSE
    ELSE FALSE

\* Select::in_range, which Screen::draw calls: the rows inside the selection's
\* row span, or the single row vacated by a shrinking selection
in_range(sel, y) == changes(sel, y)

\* A call of the Terminal: scroll_up(length), write(x, y, row) with a row
\* length columns wide, set_text_attribute(x, y, length)
TerminalCall(call, x, y, length) == [call |-> call, x |-> x, y |-> y, length |-> length]

\* Screen::draw, one row of the buffer: the calls, and whether it panics.
\* The row is written once (colours are left out: a row with '#' is written
\* in two parts that cover the same cells); width_range(0..x) slices the row
\* and panics beyond its length; end - max(start, left0) is usize arithmetic
DrawRow(s, b, sel, checks, index) ==
    LET r == b.rows[index + 1]
        buffer == slice_width(r, s.left0, right(s) + 1)
        idx == index - s.top0
        lit == buffer # <<>> /\ sel.enabled /\ in_range(sel, index)
        startx == X(Unwrap(SelectStart(sel)))
        endx == X(Unwrap(SelectEnd(sel)))
        start == RowWidthRange(r, 0, startx)
        end == Min(RowWidthRange(r, 0, endx), right(s))
        x == IF start < s.left0 THEN 0 ELSE start - s.left0
        width == Min(USizeSub(end, Max(start, s.left0)), s.width)
    IN  [calls |-> (IF buffer # <<>>
                    THEN <<TerminalCall("write", 0, idx, RowWidth(buffer))>>
                    ELSE <<>>)
                   \o (IF lit THEN <<TerminalCall("set_text_attribute", x, index, width)>>
                       ELSE <<>>),
         panic |-> lit /\ \/ Len(r) < startx
                          \/ Len(r) < endx
                          \/ checks /\ end < Max(start, s.left0)]

\* The loop of Screen::draw goes on after the row drawn, unless it panicked
DrawThen(d, after) ==
    IF d.panic THEN d ELSE [calls |-> d.calls \o after.calls, panic |-> after.panic]

\* Screen::draw, the rows index..end - 1 of the buffer
RECURSIVE DrawRows(_, _, _, _, _, _)
DrawRows(s, b, sel, checks, index, end) ==
    IF end <= index THEN [calls |-> <<>>, panic |-> FALSE]
    ELSE IF ~s.updated /\ ~row_updated(b, index) /\ ~in_range(sel, index)
    THEN DrawRows(s, b, sel, checks, index + 1, end)
    ELSE DrawThen(DrawRow(s, b, sel, checks, index),
                  DrawRows(s, b, sel, checks, index + 1, end))

\* Screen::draw: the calls it makes on the terminal, in order, and whether it
\* panics.  checks: the build has overflow checks
DrawCalls(s, b, sel, checks) ==
    IF ~s.updated /\ ~updated(b) /\ ~sel.updated
    THEN [calls |-> <<>>, panic |-> FALSE]
    ELSE LET end == Min(rows(b), bottom(s) + 1)
             shown == DrawRows(s, b, sel, checks, s.top0, end)
         IN  [calls |-> (IF s.updated THEN <<TerminalCall("scroll_up", 0, 0, s.height)>>
                         ELSE <<>>)
                        \o shown.calls
                        \o [i \in 1..(bottom(s) + 1 - end) |->
                               TerminalCall("write", 0, USizeSub(end + (i - 1), s.top0), 1)],
              panic |-> shown.panic \/ (checks /\ end < s.top0)]

\* The cells of the terminal in reverse video after the calls: scroll_up
\* blanks the rows above length, write sets the cells it covers to the
\* attribute it is given, set_text_attribute reverses length cells
RECURSIVE Display(_, _)
Display(cells, calls) ==
    IF calls = <<>> THEN cells
    ELSE LET c == Head(calls)
         IN  Display(CASE c.call = "scroll_up" -> {p \in cells : c.length <= Y(p)}
                       [] c.call = "write" ->
                            {p \in cells : ~(Y(p) = c.y /\ c.x <= X(p) /\ X(p) < c.x + c.length)}
                       [] OTHER ->
                            cells \cup {<<c.x + i, c.y>> : i \in 0..(c.length - 1)},
                     Tail(calls))

----------------------------------------------------------------------------
(* buffer.rs : find_at and rfind_at.  A String is searched by bytes: a WIDE  *)
(* character takes 3 bytes in UTF-8, the others of the model 1               *)

ByteLen(ch) == IF ch = WIDE THEN 3 ELSE 1

RECURSIVE Bytes(_)
Bytes(r) == IF r = <<>> THEN 0 ELSE ByteLen(Head(r)) + Bytes(Tail(r))

IsPrefix(k, r) == Len(k) <= Len(r) /\ SubSeq(r, 1, Len(k)) = k

\* str::find: the byte offset of the first match, NotFound when there is none
NotFound == -1

RECURSIVE StrFindFrom(_, _, _)
StrFindFrom(r, k, off) ==
    IF IsPrefix(k, r) THEN off
    ELSE IF r = <<>> THEN NotFound
    ELSE StrFindFrom(Tail(r), k, off + ByteLen(Head(r)))

StrFind(r, k) == StrFindFrom(r, k, 0)

RECURSIVE FindAtLoop(_, _, _, _)
FindAtLoop(b, y, skip_x, k) ==
    IF y >= rows(b) THEN None
    ELSE LET x == StrFind(Drop(b.rows[y + 1], skip_x), k)
         IN  IF x # NotFound THEN Some(<<x + skip_x, y>>)
             ELSE FindAtLoop(b, y + 1, 0, k)

find_at(b, at, k) == FindAtLoop(b, Y(at), X(at), k)

\* stands for usize::MAX in skip_x: the whole row is searched
NoSkip == -1

RECURSIVE RFindAtLoop(_, _, _, _)
RFindAtLoop(b, y, skip_x, k) ==
    IF y < 0 THEN None
    ELSE LET c == b.rows[y + 1]
             taken == IF skip_x = NoSkip THEN Len(c) ELSE skip_x + 1
             r == Reverse(Take(c, taken))
             x == StrFind(r, Reverse(k))
         IN  IF x # NotFound THEN Some(<<Bytes(r) - x - Bytes(k), y>>)
             ELSE RFindAtLoop(b, y - 1, NoSkip, k)

rfind_at(b, at, k) ==
    RFindAtLoop(b, Min(Y(at), rows(b) - 1), IF Y(at) < rows(b) THEN X(at) ELSE NoSkip, k)

----------------------------------------------------------------------------
(* prompt.rs : the functions the prompts share *)

find_next_at(c, b, k) == find_at(b, move_right(c, b), k)

rfind_next_at(c, b, k) == rfind_at(b, move_left(c, b), k)

\* move_screen, then the redraw of mark_match: the cursor and the screen after
mark_match(c, s, b, at, k) ==
    LET c1 == CursorSet(c, b, at)
        s1 == IF 0 < RowWidth(k) /\ RowWidth(k) < s.width
              THEN fit(s, b, render(CursorSetX(c1, b, X(c1) + Len(k) - 1), b))
              ELSE s
    IN  [cursor |-> c1, screen |-> draw(force_update(fit(s1, b, render(c1, b))))]

\* prompt.rs resize(): resize_screen, fit on the cursor, refresh_screen
PromptResize(c, s, b, size) ==
    [content |-> clear_updated(b),
     screen |-> draw(fit(resize_screen(s, size), b, render(c, b)))]

----------------------------------------------------------------------------
(* editor.rs : Editor *)

\* Editor::delete_char: the buffer (res.b) and the cursor after
EditorDeleteChar(c, b) ==
    IF c = <<0, 0>> THEN [b |-> b, cursor |-> c]
    ELSE IF X(c) = 0 /\ rows(b) <= Y(c) THEN [b |-> b, cursor |-> c]
    ELSE IF X(c) = 0
    THEN LET at == CursorSetY(c, b, Y(c) - 1)
             x == row_char_len(b, at)
             b1 == squash_row(b, c).b
         IN  [b |-> b1, cursor |-> CursorSetX(move_up(c, b1), b1, x)]
    ELSE LET b1 == delete_char(b, c).b
         IN  [b |-> b1, cursor |-> move_left(c, b1)]

\* Editor::enter
EditorEnter(c, b) ==
    LET b1 == split_row(b, c).b
    IN  [b |-> b1, cursor |-> move_down(move_to_x0(c), b1)]

\* Editor::input_char
EditorInputChar(c, b, ch) ==
    LET b1 == IF rows(b) <= Y(c) THEN insert_row(b, c, <<ch>>).b
              ELSE insert_char(b, c, ch).b
    IN  [b |-> b1, cursor |-> move_right(c, b1)]

NoModifier == "None"
Shift == "Shift"
CtrlLeft == "CtrlLeft"

selected_moved(m) == m \in {CtrlLeft, Shift}

row_moved(key) ==
    key \in {"ArrowLeft", "ArrowUp", "ArrowRight", "ArrowDown", "End", "Home", "Char0"}

\* SelectMode::from(KeyModifier)
SelectModeFrom(m) == IF m = CtrlLeft THEN ModeRectangle ELSE ModeNone

\* Editor::update_select for Event::Key(key, m); c is the cursor after the event
update_select(sel, c, key, m) ==
    IF selected_moved(m) /\ row_moved(key)
    THEN IF sel.enabled THEN set_end(sel, c) ELSE set_start(sel, c, SelectModeFrom(m))
    ELSE disable(sel)

\* Editor::get_selected_text().and_then(|s| s.first().cloned()), as the text
\* a prompt starts with: [ret, panic]
SelectedFirstRow(sel, b) ==
    IF IsSome(sel.range)
    THEN LET g == get_range(b, Unwrap(SelectStart(sel)), Unwrap(SelectEnd(sel)), sel.mode)
         IN  [ret |-> IF IsSome(g.ret) /\ Unwrap(g.ret) # <<>> THEN Unwrap(g.ret)[1] ELSE <<>>,
              panic |-> g.panic]
    ELSE [ret |-> <<>>, panic |-> FALSE]

----------------------------------------------------------------------------
(* SpecEditor: the main loop, Editor::handle_events then Editor::refresh,    *)
(* and the prompts that read events of their own                             *)

EditorInitialRows == {<< <<WIDE, "a">>, <<>> >>, << <<"a">>, <<TAB, "a", "a">> >>}

\* what Terminal::get_screen_size answers: (width, height); at first, and
\* when the window is resized
InitialSize == <<4, 4>>
TermSizes == {InitialSize, <<3, 3>>}

Modifiers == {NoModifier, Shift, CtrlLeft}
TypedChars == {"a"}
SearchChars == {"a"}
GotoChars == {"0", "2"}
AnswerChars == {"y", "n"}
ExitAnswerChars == {"y", "n", "o", "Y"}
NameChars == {"f"}
ReplacedChars == {"a"}

\* Editor::new, then Editor::init
EditorInit ==
    /\ \/ content = BufferFrom(<<>>, None)
       \/ \E rs \in EditorInitialRows : content = BufferFrom(rs, Some("f"))
    /\ saved = content.rows
    /\ cursor = CursorDefault
    /\ select = SelectDefault
    /\ screen = draw(ScreenResize(ScreenDefault, InitialSize[2], InitialSize[1]))
    /\ prompt = PromptDefault
    /\ row = <<>>
    /\ last = NoCall
    /\ steps = 0
    /\ trail = <<>>
    /\ overflow_checks \in BOOLEAN
    /\ panicked = FALSE

\* An event is read: by Editor::handle_events, or by the prompt that is open
Reads(at) == ~panicked /\ prompt.at = at /\ steps < MaxEditorSteps

\* steps counts the events Editor::handle_events has read, the prompts that
\* have returned and the replacements made inside the Replace prompt
Frame ==
    /\ steps' = steps + 1
    /\ UNCHANGED <<row, trail, overflow_checks>>

PromptFrame == UNCHANGED <<steps, row, trail, overflow_checks>>

EditorPanics(name) ==
    /\ panicked' = TRUE
    /\ last' = [NoCall EXCEPT !.op = name]
    /\ UNCHANGED <<content, cursor, select, screen, prompt, saved>>

\* The end of Editor::handle_events for Event::Key(key, m): the branch of
\* the match has left b, c and s; update_select follows; refresh is next
\* sv is what the file holds after the event.  last keeps the event: its key
\* in op, its KeyModifier in mode, and in ret what the prompt the key opened
\* has answered: None, or Some text
EditorEventReturned(key, m, b, c, s, sel, sv, ret) ==
    /\ Frame
    /\ IF b.panic THEN EditorPanics(key)
       ELSE /\ panicked' = FALSE
            /\ last' = [NoCall EXCEPT !.op = key, !.mode = m, !.ret = ret]
            /\ content' = b
            /\ cursor' = c
            /\ screen' = s
            /\ select' = update_select(sel, c, key, m)
            /\ prompt' = [PromptDefault EXCEPT !.at = "refresh"]
            /\ saved' = sv

EditorEventSaved(key, m, b, c, s, sel, sv) ==
    EditorEventReturned(key, m, b, c, s, sel, sv, None)

EditorEvent(key, m, b, c, s, sel) == EditorEventSaved(key, m, b, c, s, sel, saved)

\* Editor::handle_events returns Err, or calls exit(0): main ends
EditorExits(key) ==
    /\ Frame
    /\ panicked' = FALSE
    /\ last' = [NoCall EXCEPT !.op = key]
    /\ prompt' = [PromptDefault EXCEPT !.at = "exited"]
    /\ UNCHANGED <<content, cursor, select, screen, saved>>

\* Editor::handle_events: one event read in the main loop.  The Find, Goto, Save,
\* Exit and Replace keys call the functions of the same name, below.
handle_events ==
    \* -- BackSpace
    \/ Reads("handle_events") /\
       LET r == EditorDeleteChar(cursor, content)
       IN  EditorEvent("BackSpace", NoModifier, r.b, r.cursor, screen, select)
    \* -- Enter
    \/ Reads("handle_events") /\
       LET r == EditorEnter(cursor, content)
       IN  EditorEvent("Enter", NoModifier, r.b, r.cursor, screen, select)
    \* -- End
    \/ Reads("handle_events") /\ \E m \in Modifiers :
       EditorEvent("End", m, content, move_to_xmax(cursor, content), screen, select)
    \* -- PageUp
    \/ Reads("handle_events") /\
       LET s == ScreenMoveUp(screen)
       IN  EditorEvent("PageUp", NoModifier, content, move_up_screen(cursor, content, s), s, select)
    \* -- PageDown
    \/ Reads("handle_events") /\
       LET s == ScreenMoveDown(screen, content)
       IN  EditorEvent("PageDown", NoModifier, content, move_down_screen(cursor, content, s), s,
                       select)
    \* -- Home
    \/ Reads("handle_events") /\ \E m \in Modifiers :
       EditorEvent("Home", m, content, move_to_x0(cursor), screen, select)
    \* -- ArrowLeft
    \/ Reads("handle_events") /\ \E m \in Modifiers :
       EditorEvent("ArrowLeft", m, content, move_left(cursor, content), screen, select)
    \* -- ArrowRight
    \/ Reads("handle_events") /\ \E m \in Modifiers :
       EditorEvent("ArrowRight", m, content, move_right(cursor, content), screen, select)
    \* -- ArrowUp
    \/ Reads("handle_events") /\ \E m \in Modifiers :
       EditorEvent("ArrowUp", m,
                   IF RenderPanics(cursor, content) THEN Panic(content) ELSE content,
                   move_up_render(cursor, content), screen, select)
    \* -- ArrowDown
    \/ Reads("handle_events") /\ \E m \in Modifiers :
       EditorEvent("ArrowDown", m,
                   IF RenderPanics(cursor, content) THEN Panic(content) ELSE content,
                   move_down_render(cursor, content), screen, select)
    \* -- Delete
    \/ Reads("handle_events") /\
       LET r == EditorDeleteChar(move_right(cursor, content), content)
       IN  EditorEvent("Delete", NoModifier, r.b, r.cursor, screen, select)
    \* -- DeleteRow
    \/ Reads("handle_events") /\
       EditorEvent("DeleteRow", NoModifier,
                   IF row_char_len(content, cursor) = 0
                   THEN delete_row(content, cursor).b
                   ELSE shrink_row(content, cursor).b,
                   cursor, screen, select)
    \* -- Copy
    \/ Reads("handle_events") /\
       EditorEvent("Copy", NoModifier,
                   IF IsSome(select.range)
                   THEN copy_pending(content, Unwrap(SelectStart(select)),
                                     Unwrap(SelectEnd(select)), select.mode)
                   ELSE content,
                   cursor, screen, select)
    \* -- Cut
    \/ Reads("handle_events") /\
       IF IsSome(select.range)
       THEN LET start == Unwrap(SelectStart(select))
                b == delete_chars(content, start, Unwrap(SelectEnd(select)), select.mode).b
            IN  EditorEvent("Cut", NoModifier, b, CursorSet(cursor, b, start), screen, select)
       ELSE EditorEvent("Cut", NoModifier, content, cursor, screen, select)
    \* -- Paste
    \/ Reads("handle_events") /\
       LET r == paste_pending(content, cursor)
       IN  EditorEvent("Paste", NoModifier, r.b,
                       IF IsSome(content.pending) /\ IsSome(r.ret)
                       THEN CursorSet(cursor, r.b, Unwrap(r.ret)) ELSE cursor,
                       screen, select)
    \* -- Undo
    \/ Reads("handle_events") /\
       LET r == undo(content)
       IN  EditorEvent("Undo", NoModifier, r.b,
                       IF IsSome(r.ret) THEN CursorSet(cursor, r.b, Unwrap(r.ret)) ELSE cursor,
                       screen, select)
    \* -- Char
    \/ Reads("handle_events") /\ \E ch \in TypedChars :
       LET r == EditorInputChar(cursor, content, ch)
       IN  EditorEvent("Char", NoModifier, r.b, r.cursor, screen, select)
    \* -- Char('\0')
    \* Key(Char('\0'), m): no branch of the match takes it, update_select does
    \/ Reads("handle_events") /\ \E m \in Modifiers :
       EditorEvent("Char0", m, content, cursor, screen, select)
    \* -- Resize
    \* Window(Resize)
    \/ Reads("handle_events") /\ \E size \in TermSizes :
       EditorEvent("Resize", NoModifier, content, cursor, resize_screen(screen, size), select)
    \* -- Other
    \* Escape, F3: the match has no branch for them
    \/ Reads("handle_events") /\
       EditorEvent("Other", NoModifier, content, cursor, screen, select)

\* clear_screen of a prompt: the whole screen is drawn again
clear_screen(c, s) == [found |-> FALSE, cursor |-> c, screen |-> draw(force_update(s))]

Marked(m) == [found |-> TRUE, cursor |-> m.cursor, screen |-> m.screen]

\* FindKeyword::incremental_keyword
incremental_keyword(c, s, b, k) ==
    LET f == find_at(b, c, k)
    IN  IF IsSome(f) THEN Marked(mark_match(c, s, b, Unwrap(f), k)) ELSE clear_screen(c, s)

\* FindKeyword::handle_input_event
FindInputEvent(c, s, b, k) ==
    IF k = <<>> THEN clear_screen(CursorSet(c, b, <<0, 0>>), s)
    ELSE incremental_keyword(c, s, b, k)

\* FindKeyword::move_next_keyword and move_previous_keyword
FindMoveKeyword(c, s, b, k, forward) ==
    LET f == IF forward THEN find_next_at(c, b, k) ELSE rfind_next_at(c, b, k)
    IN  IF IsSome(f) THEN Marked(mark_match(c, s, b, Unwrap(f), k))
        ELSE [found |-> FALSE, cursor |-> c, screen |-> s]

\* Replace::move_first_keyword
move_first_keyword(c, s, b, k) ==
    LET f == find_at(b, CursorDefault, k)
    IN  IF IsSome(f) THEN Marked(mark_match(c, s, b, Unwrap(f), k))
        ELSE [found |-> FALSE, cursor |-> c, screen |-> s]

\* Replace::move_keyword_at_current
move_keyword_at_current(c, s, b, k) ==
    LET f == find_at(b, c, k)
    IN  IF IsSome(f) THEN Marked(mark_match(c, s, b, Unwrap(f), k))
        ELSE move_first_keyword(c, s, b, k)

\* Replace::move_next_keyword
move_next_keyword(c, s, b, k) ==
    LET f == find_next_at(c, b, k)
    IN  IF IsSome(f) THEN Marked(mark_match(c, s, b, Unwrap(f), k))
        ELSE move_first_keyword(c, s, b, k)

\* An event read by the open prompt after which the prompt goes on reading
PromptEvent(key, b, c, s, pr) ==
    /\ IF key = "Replaced" THEN Frame ELSE PromptFrame
    /\ IF b.panic THEN EditorPanics(key)
       ELSE /\ panicked' = FALSE
            /\ content' = b
            /\ cursor' = c
            /\ screen' = s
            /\ prompt' = pr
            /\ UNCHANGED <<select, saved, last>>

\* A key opens a prompt: get_selected_text gives its first text, the
\* selection is disabled, the prompt keeps the cursor as source
OpenPrompt(key, at) ==
    LET v == SelectedFirstRow(select, content)
    IN  /\ Frame
        /\ IF v.panic THEN EditorPanics(key)
           ELSE /\ panicked' = FALSE
                /\ select' = disable(select)
                /\ prompt' = [PromptDefault EXCEPT !.at = at, !.chars = v.ret,
                                                   !.value = v.ret, !.source = cursor]
                /\ UNCHANGED <<content, cursor, screen, saved, last>>

\* The text of the prompt after BackSpace
Erased(chars) == IF chars = <<>> THEN chars ELSE Front(chars)

(* Editor::find and FindKeyword *)

FindTyped(key, chars) ==
    LET r == FindInputEvent(cursor, screen, content, chars)
    IN  PromptEvent(key, content, r.cursor, r.screen, [prompt EXCEPT !.chars = chars])

\* Editor::find: the key opens the prompt, and FindKeyword reads events until
\* Enter or Escape
find ==
    \* -- Find
    \/ Reads("handle_events") /\ OpenPrompt("Find", "find")
    \* -- BackSpace
    \/ Reads("find") /\
       IF prompt.chars = <<>>
       THEN PromptEvent("BackSpace", content, cursor, screen, prompt)
       ELSE FindTyped("BackSpace", Erased(prompt.chars))
    \* -- Char
    \/ Reads("find") /\ \E ch \in SearchChars :
       Len(prompt.chars) < MaxChars /\ FindTyped("Char", Append(prompt.chars, ch))
    \* -- F3
    \/ Reads("find") /\ \E forward \in BOOLEAN :
       LET r == FindMoveKeyword(cursor, screen, content, prompt.chars, forward)
       IN  PromptEvent("F3", content, r.cursor, r.screen, prompt)
    \* -- Resize
    \/ Reads("find") /\ \E size \in TermSizes :
       LET z == PromptResize(cursor, screen, content, size)
           r == incremental_keyword(cursor, z.screen, z.content, prompt.chars)
       IN  PromptEvent("Resize", z.content, r.cursor, r.screen, prompt)
    \* -- Other
    \/ Reads("find") /\ PromptEvent("Other", content, cursor, screen, prompt)
    \* -- Enter
    \* Enter ends the prompt with its text; so does a key that moves the cursor
    \/ Reads("find") /\
       EditorEventReturned("Find", NoModifier, content, cursor, force_update(screen), select,
                           saved, Some(prompt.chars))
    \* -- Move
    \/ Reads("find") /\
       \E key \in {"End", "PageUp", "PageDown", "Home", "ArrowLeft", "ArrowUp", "ArrowRight",
                    "ArrowDown"} :
           LET s == CASE key = "PageUp" -> ScreenMoveUp(screen)
                      [] key = "PageDown" -> ScreenMoveDown(screen, content)
                      [] OTHER -> screen
               c == CASE key = "End" -> move_to_xmax(cursor, content)
                      [] key = "PageUp" -> move_up_screen(cursor, content, s)
                      [] key = "PageDown" -> move_down_screen(cursor, content, s)
                      [] key = "Home" -> move_to_x0(cursor)
                      [] key = "ArrowLeft" -> move_left(cursor, content)
                      [] key = "ArrowUp" -> move_up(cursor, content)
                      [] key = "ArrowRight" -> move_right(cursor, content)
                      [] OTHER -> move_down(cursor, content)
           IN  EditorEventReturned("Find", NoModifier, content, c, force_update(s), select,
                                   saved, Some(prompt.chars))
    \* -- Escape
    \* Escape: the prompt answers None and Editor::find puts the cursor back
    \/ Reads("find") /\
       EditorEvent("Find", NoModifier, content, CursorSet(cursor, content, prompt.source),
                   force_update(screen), select)

(* Editor::goto and Input *)

\* str::parse::<usize> of the digits typed; NotANumber for the empty text
NotANumber == -1

Digit(ch) == CASE ch = "0" -> 0 [] ch = "1" -> 1 [] ch = "2" -> 2 [] ch = "3" -> 3

RECURSIVE ParseFrom(_, _)
ParseFrom(chars, n) ==
    IF chars = <<>> THEN n ELSE ParseFrom(Tail(chars), 10 * n + Digit(Head(chars)))

Parse(chars) ==
    IF chars = <<>> \/ \E i \in 1..Len(chars) : chars[i] \notin {"0", "1", "2", "3"}
    THEN NotANumber
    ELSE ParseFrom(chars, 0)

\* Input: typing, BackSpace, a resize and the other keys keep the prompt open
InputChar(alphabet) == \E ch \in alphabet :
    /\ Len(prompt.chars) < MaxChars
    /\ PromptEvent("Char", content, cursor, screen,
                   [prompt EXCEPT !.chars = Append(prompt.chars, ch)])
InputBackSpace ==
    PromptEvent("BackSpace", content, cursor, screen,
                [prompt EXCEPT !.chars = Erased(prompt.chars)])
InputResize == \E size \in TermSizes :
    LET z == PromptResize(cursor, screen, content, size)
    IN  PromptEvent("Resize", z.content, cursor, z.screen, prompt)
InputOther == PromptEvent("Other", content, cursor, screen, prompt)

\* Editor::goto: the key opens the prompt, and Input reads events until a line
\* number is entered or Escape
goto ==
    \* -- Goto
    \/ Reads("handle_events") /\
       /\ Frame
       /\ panicked' = FALSE
       /\ prompt' = [PromptDefault EXCEPT !.at = "goto", !.rows = rows(content)]
       /\ UNCHANGED <<content, cursor, screen, select, saved, last>>
    \* -- Char
    \/ Reads("goto") /\ InputChar(GotoChars)
    \* -- BackSpace
    \/ Reads("goto") /\ InputBackSpace
    \* -- Resize
    \/ Reads("goto") /\ InputResize
    \* -- Other
    \/ Reads("goto") /\ InputOther
    \* -- Enter
    \* Enter: a line number of the buffer moves the cursor, any other text is asked again
    \/ Reads("goto") /\
       LET lineno == Parse(prompt.chars)
       IN  IF 0 < lineno /\ lineno <= prompt.rows
           THEN EditorEvent("Goto", NoModifier, content, CursorSetY(cursor, content, lineno - 1),
                            screen, select)
           ELSE PromptEvent("Enter", content, cursor, screen, [prompt EXCEPT !.chars = <<>>])
    \* -- Escape
    \/ Reads("goto") /\ EditorEvent("Goto", NoModifier, content, cursor, screen, select)

(* Editor::save and Input *)

\* Row::to_string_at(0) of the text typed
RECURSIVE StringOf(_)
StringOf(chars) == IF chars = <<>> THEN "" ELSE Head(chars) \o StringOf(Tail(chars))

\* Editor::save: saves a named buffer; asks the name of an unnamed one
editor_save ==
    \* -- Save
    \* io_ok: File::create and the writes succeed
    \/ Reads("handle_events") /\ \E io_ok \in BOOLEAN :
       IF IsSome(content.filename) /\ ~io_ok THEN EditorExits("Save")
       ELSE LET b == save(content, io_ok)
                sv == IF IsSome(content.filename) THEN content.rows ELSE saved
            IN  IF b.cached
                THEN /\ Frame
                     /\ panicked' = FALSE
                     /\ content' = b
                     /\ saved' = sv
                     /\ prompt' = [PromptDefault EXCEPT !.at = "save"]
                     /\ UNCHANGED <<cursor, screen, select, last>>
                ELSE EditorEventSaved("Save", NoModifier, b, cursor, screen, select, sv)
    \* -- Char
    \/ Reads("save") /\ InputChar(NameChars)
    \* -- BackSpace
    \/ Reads("save") /\ InputBackSpace
    \* -- Resize
    \/ Reads("save") /\ InputResize
    \* -- Other
    \/ Reads("save") /\ InputOther
    \* -- Enter
    \* Enter: save_as, which fails for the empty name, then set_filename
    \/ Reads("save") /\ \E io_ok \in BOOLEAN :
       IF io_ok /\ prompt.chars # <<>>
       THEN EditorEventSaved("Save", NoModifier,
                             [save_as(content, TRUE) EXCEPT
                                  !.filename = Some(StringOf(prompt.chars))],
                             cursor, screen, select, content.rows)
       ELSE EditorExits("Save")
    \* -- Escape
    \/ Reads("save") /\ EditorEvent("Save", NoModifier, content, cursor, screen, select)

(* Editor::exit, Editor::confirm_exit and YesNo *)

\* Mutation: only the first letter of the answer counts
first_ascii_lowercase(chars) ==
    [i \in 1..Min(1, Len(chars)) |->
        CASE chars[i] = "Y" -> "y" [] chars[i] = "N" -> "n" [] OTHER -> chars[i]]

\* str::to_ascii_lowercase, on the letters an answer is typed with
to_ascii_lowercase(chars) ==
    [i \in 1..Len(chars) |->
        CASE chars[i] = "Y" -> "y" [] chars[i] = "N" -> "n" [] chars[i] = "O" -> "o"
          [] OTHER -> chars[i]]

\* Editor::exit: the Exit key ends the program, after YesNo::confirm when the
\* buffer is dirty
confirm_exit ==
    \* -- Exit
    \/ Reads("handle_events") /\
       IF content.cached
       THEN /\ Frame
            /\ panicked' = FALSE
            /\ prompt' = [PromptDefault EXCEPT !.at = "exit"]
            /\ UNCHANGED <<content, cursor, screen, select, saved, last>>
       ELSE EditorExits("Exit")
    \* -- Char
    \/ Reads("exit") /\ InputChar(ExitAnswerChars)
    \* -- BackSpace
    \/ Reads("exit") /\ InputBackSpace
    \* -- Resize
    \/ Reads("exit") /\ InputResize
    \* -- Other
    \/ Reads("exit") /\ InputOther
    \* -- Enter
    \* YesNo::confirm: yes ends the program, no and the empty answer return to
    \* the editor, any other answer is asked again
    \/ Reads("exit") /\
       LET answer == StringOf(to_ascii_lowercase(prompt.chars))
       IN  IF answer \in {"y", "yes"} THEN EditorExits("Exit")
           ELSE IF answer \in {"n", "no", ""}
           THEN EditorEvent("Exit", NoModifier, content, cursor, screen, select)
           ELSE PromptEvent("Enter", content, cursor, screen, [prompt EXCEPT !.chars = <<>>])
    \* -- Escape
    \/ Reads("exit") /\ EditorEvent("Exit", NoModifier, content, cursor, screen, select)

(* Editor::replace and Replace *)

\* The end of Replace::replace, then of Editor::replace
ReplaceReturns(b, c, s, esc_at) ==
    EditorEvent("Replace", NoModifier, b, CursorSet(c, b, esc_at), force_update(s), select)

\* Editor::replace, first prompt: the text to replace
replace_source ==
    \* -- Replace
    \/ Reads("handle_events") /\ OpenPrompt("Replace", "replace_source")
    \* -- Char
    \* Replace::input for the word to replace: it starts with the selected text
    \/ Reads("replace_source") /\ InputChar(SearchChars)
    \* -- BackSpace
    \/ Reads("replace_source") /\ InputBackSpace
    \* -- Resize
    \/ Reads("replace_source") /\ InputResize
    \* -- Other
    \/ Reads("replace_source") /\ InputOther
    \* -- Enter
    \/ Reads("replace_source") /\
       IF prompt.chars = <<>>
       THEN PromptEvent("Enter", content, cursor, screen, [prompt EXCEPT !.chars = prompt.value])
       ELSE PromptEvent("Enter", content, cursor, screen,
                        [prompt EXCEPT !.at = "replace_target", !.keyword = prompt.chars,
                                       !.chars = <<>>])
    \* -- Escape
    \/ Reads("replace_source") /\
       ReplaceReturns(content, cursor, screen, prompt.source)

\* Editor::replace, second prompt: the text to put in its place
replace_target ==
    \* -- Char
    \* Replace::input for the word that replaces it
    \/ Reads("replace_target") /\ InputChar(ReplacedChars)
    \* -- BackSpace
    \/ Reads("replace_target") /\ InputBackSpace
    \* -- Resize
    \/ Reads("replace_target") /\ InputResize
    \* -- Other
    \/ Reads("replace_target") /\ InputOther
    \* -- Enter
    \/ Reads("replace_target") /\
       IF prompt.chars = <<>>
       THEN PromptEvent("Enter", content, cursor, screen, prompt)
       ELSE LET r == move_keyword_at_current(cursor, screen, content, prompt.keyword)
            IN  IF r.found
                THEN PromptEvent("Enter", content, r.cursor, r.screen,
                                 [prompt EXCEPT !.at = "replace_confirm",
                                                !.keywords = Some(<<prompt.keyword, prompt.chars>>),
                                                !.chars = <<>>])
                ELSE ReplaceReturns(content, r.cursor, r.screen, prompt.source)
    \* -- Escape
    \/ Reads("replace_target") /\
       ReplaceReturns(content, cursor, screen, prompt.source)

\* Editor::replace, Replace::replace: each match is confirmed with y or n
replace_confirm ==
    \* -- Char
    \* The (y/n) prompt: callback_event clears the text after every event, so
    \* each character typed is the whole answer
    \/ Reads("replace_confirm") /\ \E ch \in AnswerChars \cup {"a"} :
       LET source == Unwrap(prompt.keywords)[1]
           replaced == Unwrap(prompt.keywords)[2]
           done == replace(content, cursor, Len(source), replaced)
           b == IF ch = "y" THEN done.b ELSE content
           r == move_next_keyword(cursor, screen, b, source)
       IN  IF ch \notin {"y", "n"} THEN PromptEvent("Char", content, cursor, screen, prompt)
           ELSE IF r.found
           THEN PromptEvent(IF ch = "y" THEN "Replaced" ELSE "Char", b, r.cursor, r.screen,
                            IF ch = "y" /\ IsSome(done.ret)
                            THEN [prompt EXCEPT !.replaced = Some(cursor)] ELSE prompt)
           ELSE ReplaceReturns(b, r.cursor, r.screen, r.cursor)
    \* -- Resize
    \/ Reads("replace_confirm") /\ \E size \in TermSizes :
       LET z == PromptResize(cursor, screen, content, size)
           r == move_keyword_at_current(cursor, z.screen, z.content, Unwrap(prompt.keywords)[1])
       IN  PromptEvent("Resize", z.content, r.cursor, r.screen, prompt)
    \* -- Other
    \* BackSpace on the empty text, Enter (the prompt is asked again) and the
    \* other keys leave everything as it is
    \/ Reads("replace_confirm") /\
       PromptEvent("Other", content, cursor, screen, prompt)
    \* -- Escape
    \/ Reads("replace_confirm") /\ ReplaceReturns(content, cursor, screen, cursor)

(* Editor::refresh: fit, then refresh_screen.  drawn is what the terminal   *)
(* shows once Screen::draw has made its calls                               *)

RefreshTo(drawn) ==
    /\ ~panicked
    /\ prompt.at = "refresh"
    /\ IF \/ RenderPanics(cursor, content)
          \/ overflow_checks /\ FitUnderflows(screen, content, render(cursor, content))
          \/ DrawCalls(fit(screen, content, render(cursor, content)), content, select,
                       overflow_checks).panic
       THEN /\ panicked' = TRUE
            /\ UNCHANGED <<content, screen, select, prompt, trail>>
       ELSE /\ panicked' = FALSE
            /\ screen' = draw(fit(screen, content, render(cursor, content)))
            /\ content' = clear_updated(content)
            /\ select' = SelectClearUpdated(select)
            /\ prompt' = PromptDefault
            /\ trail' = drawn
    /\ UNCHANGED <<cursor, saved, last, steps, row, overflow_checks>>

\* The terminal is not tracked
Refresh == RefreshTo(trail)

EditorNext ==
    \/ handle_events \/ find \/ goto \/ editor_save \/ confirm_exit
    \/ replace_source \/ replace_target \/ replace_confirm
    \/ Refresh

SpecEditor == EditorInit /\ [][EditorNext]_vars

\* C9: after every event the editor has processed, in the main loop or in a
\* prompt, the cursor is within the buffer as it then is: y <= rows() and
\* x <= row_char_len(y)
C9_EditorClamp == ~panicked => Clamped(cursor, content)

\* Cut has taken the selected text out of the row of the cursor, which it
\* has left empty: the cursor was at the end of the selection, now past the
\* end of the row, and is back at the start
C9_Witness ==
    /\ ~panicked
    /\ prompt.at = "refresh"
    /\ last.op = "Cut"
    /\ content.history # <<>>
    /\ content.history[Len(content.history)].op.tag = "DeleteChars"
    /\ rows(content) = Len(saved)
    /\ Y(cursor) < rows(content)
    /\ saved[Y(cursor) + 1] # <<>>
    /\ content.rows[Y(cursor) + 1] = <<>>
    /\ IsSome(select.range)
    /\ cursor = Unwrap(select.range)[1]
    /\ X(Unwrap(select.range)[2]) > row_char_len(content, cursor)

----------------------------------------------------------------------------
(* SpecPaste: a range cut with delete_chars and pasted back where it was *)

PasteInit == BufInit

\* start..end is a non-empty range inside the buffer b, in the order
\* Select::start and Select::end supply it
RangeOf(b, start, end, mode) ==
    /\ InBoundsAt(b, start)
    /\ InBoundsAt(b, end)
    /\ Ordered(start, end)
    /\ IF mode = ModeRectangle THEN X(start) < X(end) ELSE start # end

\* A step is delete_chars(start, end, mode) on a loaded buffer, or
\* paste_pending(start) right after it.  trail keeps the rows before the cut.
PasteNext ==
    \/ /\ ~panicked /\ last.op = "init"
       /\ \E start \in Coords, end \in Coords, mode \in SelectModes :
              LET res == delete_chars(content, start, end, mode)
              IN  /\ RangeOf(content, start, end, mode)
                  /\ last' = CallOf("delete_chars", start, end, mode, <<>>, <<>>, 0, res.ret)
                  /\ trail' = <<[rows |-> content.rows, at |-> start]>>
                  /\ IF res.b.panic
                     THEN panicked' = TRUE /\ content' = content
                     ELSE panicked' = FALSE /\ content' = res.b
       /\ steps' = steps + 1
       /\ UNCHANGED <<cursor, select, screen, row, saved, prompt, overflow_checks>>
    \/ /\ ~panicked /\ last.op = "delete_chars"
       /\ LET res == paste_pending(content, last.at)
          IN  /\ last' = [last EXCEPT !.op = "paste_pending", !.ret = res.ret]
              /\ IF res.b.panic
                 THEN panicked' = TRUE /\ content' = content
                 ELSE panicked' = FALSE /\ content' = res.b
       /\ steps' = steps + 1
       /\ UNCHANGED <<cursor, select, screen, row, saved, prompt, trail, overflow_checks>>

SpecPaste == PasteInit /\ [][PasteNext]_vars

\* C11: delete_chars(start, end, mode) on a non-empty in-bounds range followed
\* by paste_pending(start) leaves the rows character for character as they
\* were before the cut, in both selection modes, rectangles over rows shorter
\* than the column range included.
C11_CutPasteRoundTrip ==
    last.op = "paste_pending" =>
        /\ ~panicked
        /\ content.rows = trail[1].rows

----------------------------------------------------------------------------
(* SpecWidth: the width arithmetic of a Row of narrow, double-width,        *)
(* zero-width and tab characters                                            *)

MaxWidthLen == 3

WidthChars == {"a", TAB, WIDE, ZERO}
WidthRows == UNION {[1..n -> WidthChars] : n \in 0..MaxWidthLen}

MaxColumn == 5

WidthNoCall == [op |-> "init", index |-> 0, end |-> 0, before |-> 0, after |-> 0, out |-> <<>>]

WidthInit ==
    /\ row \in WidthRows
    /\ last = WidthNoCall
    /\ content = BufferFrom(<<>>, None)
    /\ saved = <<>>
    /\ cursor = CursorDefault
    /\ select = SelectDefault
    /\ prompt = PromptDefault
    /\ screen = ScreenDefault
    /\ steps = 0
    /\ trail = <<>>
    /\ overflow_checks \in BOOLEAN
    /\ panicked = FALSE

WidthCall(call, panic) ==
    /\ last' = call
    /\ panicked' = panic
    /\ steps' = steps + 1
    /\ UNCHANGED <<content, cursor, select, screen, row, saved, prompt, trail, overflow_checks>>

\* A step is one call on the row
WidthNext ==
    \* width_range(0..index) and width_range(0..index + 1)
    \/ /\ last.op = "init"
       /\ \E index \in 0..(Len(row) - 1) :
              WidthCall([WidthNoCall EXCEPT !.op = "width_range", !.index = index,
                                            !.before = RowWidthRange(row, 0, index),
                                            !.after = RowWidthRange(row, 0, index + 1)],
                        FALSE)
    \* slice_width(start..end)
    \/ /\ last.op = "init"
       /\ \E start \in 0..MaxColumn, end \in 0..MaxColumn :
              /\ start <= end
              /\ WidthCall([WidthNoCall EXCEPT !.op = "slice_width", !.index = start,
                                               !.end = end,
                                               !.out = slice_width(row, start, end)],
                           FALSE)

SpecWidth == WidthInit /\ [][WidthNext]_vars

\* C12: width_range(0..i) <= width_range(0..i+1); a tab advances the column
\* by 8 - (column mod 8), which is in 1..8 and lands on a multiple of 8; a
\* double-width character adds exactly 2 and any other character exactly 1.
C12_WidthArithmetic ==
    last.op = "width_range" =>
        LET ch == row[last.index + 1]
            step == last.after - last.before
        IN  /\ last.before <= last.after
            /\ ch = TAB =>
                   /\ step = TAB_STOP - (last.before % TAB_STOP)
                   /\ step \in 1..TAB_STOP
                   /\ last.after % TAB_STOP = 0
            /\ ch = WIDE => step = 2
            /\ ch \notin {TAB, WIDE} => step = 1

\* The columns of the tab-expanded row: each narrow character fills one, each
\* double-width character two (its "head" and its "tail")
RECURSIVE Columns(_)
Columns(r) ==
    IF r = <<>> THEN <<>>
    ELSE (IF char_width(Head(r)) = 2
          THEN <<[ch |-> Head(r), half |-> "head"], [ch |-> Head(r), half |-> "tail"]>>
          ELSE <<[ch |-> Head(r), half |-> "whole"]>>) \o Columns(Tail(r))

\* What the columns col..end-1 of cols show: a character that lies wholly
\* inside, a space for a column past the content or for half a character
RECURSIVE Shown(_, _, _)
Shown(cols, col, end) ==
    IF col >= end THEN <<>>
    ELSE IF col >= Len(cols) THEN <<SPACE>> \o Shown(cols, col + 1, end)
    ELSE LET cell == cols[col + 1]
         IN  CASE cell.half = "whole" -> <<cell.ch>> \o Shown(cols, col + 1, end)
               [] cell.half = "head" /\ col + 1 < end -> <<cell.ch>> \o Shown(cols, col + 2, end)
               [] OTHER -> <<SPACE>> \o Shown(cols, col + 1, end)

\* C13: for a row of narrow, double-width and tab characters and start <= end,
\* slice_width(start..end) is a row of visual width end - start that shows, at
\* each column, the character the tab-expanded row shows there when it lies
\* wholly inside the range, and a space for a column past the content or for a
\* double-width character cut by an edge of the range.
C13_SliceWidthExact ==
    (last.op = "slice_width" /\ \A i \in 1..Len(row) : row[i] # ZERO) =>
        /\ ~panicked
        /\ RowWidth(last.out) = last.end - last.index
        /\ last.out = Shown(Columns(RowRender(row)), last.index, last.end)

----------------------------------------------------------------------------
(* SpecFit: Editor::refresh for any buffer, any valid cursor and any        *)
(* viewport of at least one row and one column                              *)

MaxViewport == 3

FitRowPool == {<<>>, <<TAB, "a">>, <<"a", WIDE>>}

FitInit ==
    /\ \E rs \in SeqsUpTo(FitRowPool, MaxRows) : content = BufferFrom(rs, Some("f"))
    /\ saved = content.rows
    /\ cursor \in {c \in CursorCoords : Clamped(c, content)}
    /\ screen \in [left0 : 0..MaxViewport, top0 : 0..MaxHeight, height : 1..MaxHeight,
                   width : 1..MaxViewport, updated : BOOLEAN]
    /\ select = SelectDefault
    /\ prompt = [PromptDefault EXCEPT !.at = "refresh"]
    /\ row = <<>>
    /\ last = NoCall
    /\ steps = 0
    /\ trail = <<>>
    /\ overflow_checks \in BOOLEAN
    /\ panicked = FALSE

\* A step is Editor::refresh
FitNext == Refresh

SpecFit == FitInit /\ [][FitNext]_vars

\* C14: Editor::refresh does not panic and, once it has returned, the cursor
\* is inside the viewport: top <= y <= top + height - 1 and
\* left <= render x <= left + width - 1, for any content, any valid cursor
\* and any viewport with width >= 1 and height >= 1.
C14_ViewportInvariant ==
    /\ ~panicked
    /\ prompt.at = "handle_events" =>
           LET pos == render(cursor, content)
           IN  /\ screen.top0 <= Y(pos) /\ Y(pos) <= bottom(screen)
               /\ screen.left0 <= X(pos) /\ X(pos) <= right(screen)

----------------------------------------------------------------------------
(* SpecDraw: the main loop with the terminal: the keys Editor::handle_events *)
(* handles itself, each followed by Editor::refresh.  trail is the terminal: *)
(* now, the cells in reverse video; was, those cells before the last redraw  *)

DrawInitialRows == {<< <<"a", "b">>, <<"a">>, <<>> >>, << <<"a", WIDE>>, <<TAB, "a">> >>}

DrawSizes == {<<3, 3>>, <<3, 4>>}

\* Editor::new, then Editor::init: nothing is in reverse video
DrawInit ==
    /\ \E rs \in DrawInitialRows : content = BufferFrom(rs, Some("f"))
    /\ saved = content.rows
    /\ cursor = CursorDefault
    /\ select = SelectDefault
    /\ \E size \in DrawSizes : screen = draw(ScreenResize(ScreenDefault, size[2], size[1]))
    /\ prompt = PromptDefault
    /\ row = <<>>
    /\ last = NoCall
    /\ steps = 0
    /\ trail = [was |-> {}, now |-> {}]
    /\ overflow_checks \in BOOLEAN
    /\ panicked = FALSE

\* What Screen::draw is called with by Editor::refresh
Drawing ==
    DrawCalls(fit(screen, content, render(cursor, content)), content, select, overflow_checks)

DrawNext ==
    \/ handle_events
    \/ RefreshTo([was |-> trail.now, now |-> Display(trail.now, Drawing.calls)])

SpecDraw == DrawInit /\ [][DrawNext]_vars

\* C15: Screen::draw makes no call on the terminal when the viewport's
\* updated flag, the buffer's updated ranges and the selection's updated flag
\* are all clear; and after every redraw pass that returned, Buffer::updated(),
\* Select::updated() and Screen::updated() are all false
C15_DirtyMarkers ==
    /\ (/\ prompt.at = "refresh"
        /\ ~fit(screen, content, render(cursor, content)).updated
        /\ ~updated(content)
        /\ ~select.updated) => Drawing.calls = <<>>
    /\ (prompt.at = "handle_events" /\ ~panicked)
           => ~updated(content) /\ ~select.updated /\ ~screen.updated

\* A redraw pass has returned after an edit, a selection and a viewport move
C15_Witness ==
    /\ prompt.at = "handle_events"
    /\ ~panicked
    /\ content.cached
    /\ select.enabled
    /\ screen.top0 > 0

----------------------------------------------------------------------------
(* The rows a call on the Buffer changed, and the ranges it pushed *)

\* The row at index is not what it was: another content, or the index has
\* stopped or started to exist
RowDiffers(before, after, index) ==
    IF index < Len(before) /\ index < Len(after)
    THEN before[index + 1] # after[index + 1]
    ELSE index < Len(before) \/ index < Len(after)

\* The buffer with only the ranges pushed since it was the buffer before
PushedSince(before, b) ==
    [b EXCEPT !.updated = SubSeq(@, Len(before.updated) + 1, Len(@))]

\* C16: a mutator of the Buffer (recording or bypass, both modes, undo too)
\* leaves row_updated(index) true for every index whose row differs from what
\* it was before the call, rows shifted and indexes that stopped or started to
\* exist included; the ranges stay until clear_updated
C16_NoMissedRepaint ==
    (~panicked /\ last.op \notin {"init", "clear_updated"})
        => \A index \in 0..Max(Len(last.pre.rows), rows(content)) :
               RowDiffers(last.pre.rows, content.rows, index)
                   => row_updated(PushedSince(last.pre, content), index)

----------------------------------------------------------------------------
(* The highlight on the terminal against the selection *)

\* The row index of the buffer is inside the enabled selection
Selected(sel, index) ==
    /\ sel.enabled
    /\ IsSome(sel.range)
    /\ Y(Unwrap(SelectStart(sel))) <= index
    /\ index <= Y(Unwrap(SelectEnd(sel)))

\* C17: after a selection event and the redraw pass that follows it, a row of
\* the screen that was in reverse video at the previous draw and is no longer
\* inside the enabled selection has no cell in reverse video: the row the
\* focus left and the rows of a selection since disabled are repainted plain
C17_NoStaleHighlight ==
    (prompt.at = "handle_events" /\ ~panicked)
        => \A was \in trail.was :
               ~Selected(select, Y(was) + screen.top0)
                   => \A now \in trail.now : Y(now) # Y(was)

----------------------------------------------------------------------------
(* The selection from one event of the main loop to the next *)

\* The event kept in ev is a move that selects: an arrow, Home or End with
\* Shift or Ctrl
Qualifying(ev) == selected_moved(ev.mode) /\ row_moved(ev.op)

\* C18: the first qualifying move enables the selection with anchor and focus
\* at the cursor; a later qualifying move changes the focus only; any other
\* event leaves the selection disabled with no range, start() and end() None;
\* a Cut or Copy right after such an event changes neither the rows nor the
\* pending clipboard
C18_SelectionLifecycle ==
    [][(prompt.at = "handle_events" /\ prompt'.at = "refresh" /\ ~panicked')
         => /\ (Qualifying(last') /\ ~select.enabled)
                  => /\ select'.enabled
                     /\ select'.range = Some(<<cursor', cursor'>>)
            /\ (Qualifying(last') /\ select.enabled)
                  => /\ select'.enabled
                     /\ select'.range = Some(<<Unwrap(select.range)[1], cursor'>>)
            /\ ~Qualifying(last')
                  => /\ ~select'.enabled
                     /\ select'.range = None
                     /\ SelectStart(select') = None
                     /\ SelectEnd(select') = None
            /\ (last'.op \in {"Cut", "Copy"} /\ last.op # "init" /\ ~Qualifying(last))
                  => /\ content'.rows = content.rows
                     /\ content'.pending = content.pending]_vars

----------------------------------------------------------------------------
(* The Exit key *)

\* C19: an Exit event ends the program without a prompt only when the dirty
\* flag is clear; when it is set the program ends only on the answer y or
\* yes, in any case of letters; on n, no, the empty answer or Escape the
\* editor goes on with the rows, the cursor and the dirty flag as they were
C19_ExitGating ==
    [][/\ (prompt'.at = "exited" /\ last'.op = "Exit")
            => \/ prompt.at = "handle_events" /\ ~content.cached
               \/ /\ prompt.at = "exit"
                  /\ content.cached
                  /\ StringOf(prompt.chars) \in {"y", "Y", "yes", "Yes", "yEs", "yeS",
                                                "YEs", "YeS", "yES", "YES"}
       /\ (prompt.at = "exit" /\ prompt'.at \notin {"exit", "exited"})
            => /\ ~panicked'
               /\ prompt'.at = "refresh"
               /\ content'.rows = content.rows
               /\ cursor' = cursor
               /\ content'.cached = content.cached]_vars

\* The prompt was answered Y and the program has ended
C19_Witness ==
    /\ prompt.at = "exited"
    /\ last.op = "Exit"
    /\ content.cached

----------------------------------------------------------------------------
(* Buffer::save and the dirty flag *)

\* C20: save clears cached() only when the file was created, every row
\* written and the flush done, and then the file holds the rows; when one of
\* them fails it returns the error and cached() is what it was; without a
\* filename it writes nothing, returns Ok and leaves cached(); rows, history
\* and updated ranges are never changed
C20_SaveDirtyFlag ==
    [][(last.op = "init" /\ last'.op = "save")
         => /\ content'.rows = content.rows
            /\ content'.history = content.history
            /\ content'.updated = content.updated
            /\ IF content.filename = None
               THEN /\ last'.ret = Some("Ok")
                    /\ content'.cached = content.cached
                    /\ saved' = saved
               ELSE \/ /\ last'.ret = Some("Ok")
                       /\ ~content'.cached
                       /\ saved' = content.rows
                    \/ /\ last'.ret = Some("Err")
                       /\ content'.cached = content.cached]_vars

\* A buffer edited since it was loaded has been saved
C20_Witness ==
    /\ last.op = "save"
    /\ last.ret = Some("Ok")
    /\ content.history # <<>>
    /\ saved # <<>>
    /\ ~content.cached

----------------------------------------------------------------------------
(* SpecSearch: find_at and rfind_at called with any coordinate and any      *)
(* non-empty keyword on a buffer of narrow and double-width characters      *)

MaxSearchLen == 2
MaxSearchRows == 2
MaxKeywordLen == 2

SearchRowChars == {"a", "b", WIDE}
SearchRowPool == UNION {[1..n -> SearchRowChars] : n \in 0..MaxSearchLen}
SearchCoords == (0..(MaxSearchLen + 1)) \X (0..MaxSearchRows)
Keywords == UNION {[1..n -> SearchRowChars] : n \in 1..MaxKeywordLen}

SearchInit ==
    /\ \E rs \in SeqsUpTo(SearchRowPool, MaxSearchRows) : content = BufferFrom(rs, None)
    /\ saved = content.rows
    /\ cursor = CursorDefault
    /\ select = SelectDefault
    /\ prompt = PromptDefault
    /\ screen = ScreenDefault
    /\ row = <<>>
    /\ last = NoCall
    /\ steps = 0
    /\ trail = <<>>
    /\ overflow_checks \in BOOLEAN
    /\ panicked = FALSE

\* A step is one search of the buffer; &self: nothing but the result changes
SearchNext ==
    \/ /\ last.op = "init"
       /\ \E at \in SearchCoords, keyword \in Keywords :
              last' = CallOf("find_at", at, at, ModeNone, keyword, <<>>, 0,
                             find_at(content, at, keyword))
       /\ steps' = steps + 1
       /\ UNCHANGED <<content, cursor, select, screen, row, saved, prompt, trail,
                      overflow_checks, panicked>>
    \/ /\ last.op = "init"
       /\ \E at \in SearchCoords, keyword \in Keywords :
              last' = CallOf("rfind_at", at, at, ModeNone, keyword, <<>>, 0,
                             rfind_at(content, at, keyword))
       /\ steps' = steps + 1
       /\ UNCHANGED <<content, cursor, select, screen, row, saved, prompt, trail,
                      overflow_checks, panicked>>

SpecSearch == SearchInit /\ [][SearchNext]_vars

\* the characters of row y from x to x + Len(k) are the keyword k
OccursAt(b, k, x, y) ==
    /\ y < rows(b)
    /\ x + Len(k) <= Len(b.rows[y + 1])
    /\ SubSeq(b.rows[y + 1], x + 1, x + Len(k)) = k

\* the coordinates of a set, the least in (y, x) order first
Least(S) == CHOOSE p \in S : \A q \in S : Ordered(p, q)
Greatest(S) == CHOOSE p \in S : \A q \in S : Ordered(q, p)

OccurrencesFrom(b, at, k) ==
    {p \in (0..MaxSearchLen) \X (0..(MaxSearchRows - 1)) :
        /\ OccursAt(b, k, X(p), Y(p))
        /\ Y(p) > Y(at) \/ (Y(p) = Y(at) /\ X(p) >= X(at))}

\* C21: find_at(at, keyword) with a non-empty keyword returns the character
\* coordinate of the first occurrence of the keyword, in (y, x) order, that
\* starts at or after at, and None when there is none; rows may hold
\* double-width (multi-byte) characters.
C21_FindAtForward ==
    last.op = "find_at" =>
        LET found == OccurrencesFrom(content, last.at, last.text)
        IN  last.ret = IF found = {} THEN None ELSE Some(Least(found))

\* the occurrences of k that lie within the first X(at) + 1 characters of row
\* Y(at) or in an earlier row; every row when Y(at) is past the last row
OccurrencesUpTo(b, at, k) ==
    {p \in (0..MaxSearchLen) \X (0..(MaxSearchRows - 1)) :
        /\ OccursAt(b, k, X(p), Y(p))
        /\ \/ Y(at) >= rows(b)
           \/ Y(p) < Y(at)
           \/ Y(p) = Y(at) /\ X(p) + Len(k) <= X(at) + 1}

\* C22: rfind_at(at, keyword) with a non-empty keyword returns the character
\* coordinate of the occurrence with the greatest (y, x) that lies within
\* the first at.x + 1 characters of row at.y or in an earlier row (any row
\* when at.y >= rows()), None when there is none, and find_at called at a
\* coordinate it returns reports a match at that same coordinate.
C22_RFindAtBackward ==
    last.op = "rfind_at" =>
        LET found == OccurrencesUpTo(content, last.at, last.text)
        IN  /\ last.ret = IF found = {} THEN None ELSE Some(Greatest(found))
            /\ IsSome(last.ret) =>
                   find_at(content, Unwrap(last.ret), last.text) = last.ret

----------------------------------------------------------------------------
(* The Replace prompt *)

InReplace == prompt.at \in {"replace_source", "replace_target", "replace_confirm"}

\* Replace::replace returns in this step
ReplaceEnds == InReplace /\ ~panicked' /\ prompt'.at = "refresh"

\* where the last replacement of the ending Replace prompt took place: in
\* this very step when it records a history entry, else in an earlier one
LastReplaced ==
    IF Len(content'.history) > Len(content.history) THEN Some(cursor) ELSE prompt.replaced

\* C23: when Replace::replace ends (no further match, or Escape) without any
\* replacement having been made, the cursor is back at the coordinate it had
\* before the replace command; otherwise the cursor is left at the location
\* of the last replacement.
C23_ReplaceOutcome ==
    [][ReplaceEnds =>
           cursor' = IF LastReplaced = None THEN prompt.source ELSE Unwrap(LastReplaced)]_vars

----------------------------------------------------------------------------
(* The Find prompt *)

\* a keystroke has changed the query of the open Find prompt
FindKeystroke == prompt.at = "find" /\ ~panicked' /\ prompt'.at = "find" /\ prompt'.chars # prompt.chars

\* the Find prompt is left with Escape: it answers None
FindEscaped == prompt.at = "find" /\ ~panicked' /\ prompt'.at = "refresh" /\ last'.ret = None

\* C24: after each keystroke of the incremental find the cursor is at the
\* first match found by find_at when there is one, and at (0,0) when the
\* query is empty or has no match; when the prompt is left with Escape the
\* cursor is back at the coordinate it had before the search started.
C24_FindCursor ==
    [][/\ FindKeystroke =>
              LET f == find_at(content, cursor, prompt'.chars)
              IN  cursor' = IF prompt'.chars # <<>> /\ IsSome(f) THEN Unwrap(f) ELSE <<0, 0>>
       /\ FindEscaped => cursor' = prompt.source]_vars

----------------------------------------------------------------------------
(* SpecWorker: Terminal::read_event_timeout called by the edit loop, and the *)
(* worker threads it spawns.  prompt.at is where the main thread stands;     *)
(* steps counts the calls; trail holds the threads and the channels:         *)
(*   workers[i]  the worker spawned by call i: where it stands, and the      *)
(*               result of read_event once it has it                         *)
(*   chans[i]    the messages sent on the channel of call i, not yet received*)
(*   console     the number of events read_event has taken from the console  *)
(*   delivered   the results read_event_timeout has returned, in order       *)
(*   polls       the timeouts of recv_timeout in the current call            *)
(* The result of read_event is <<n, event>> for Ok(event), the n-th event of *)
(* the console, and <<0, "Err">> for Err.                                    *)

MaxCalls == 3
MaxPolls == 2

ConsoleEvents == {"Key", "Resize"}
ReadErr == <<0, "Err">>

\* the default answer of a receiver that does not wait for the message
recv_timeout_default(chan) == Some(IF chan = <<>> THEN ReadErr ELSE Head(chan))

\* Receiver::recv_timeout: the first message of the channel, None (the Err of
\* a timeout) while there is none
recv_timeout(chan) == IF chan = <<>> THEN None ELSE Some(Head(chan))

WorkerInit ==
    /\ prompt = PromptDefault
    /\ trail = [workers |-> <<>>, chans |-> <<>>, console |-> 0, delivered |-> <<>>,
                polls |-> 0]
    /\ steps = 0
    /\ content = BufferFrom(<<>>, None)
    /\ saved = <<>>
    /\ cursor = CursorDefault
    /\ select = SelectDefault
    /\ screen = ScreenDefault
    /\ row = <<>>
    /\ last = NoCall
    /\ overflow_checks \in BOOLEAN
    /\ panicked = FALSE

read_event_timeout ==
    \* -- channel(), thread::spawn
    \* the edit loop (or the open prompt) calls read_event_timeout
    \/ /\ prompt.at = "handle_events" /\ steps < MaxCalls
       /\ steps' = steps + 1
       /\ prompt' = [prompt EXCEPT !.at = "recv_timeout"]
       /\ trail' = [trail EXCEPT !.workers = Append(@, [at |-> "read_event", result |-> ReadErr]),
                                 !.chans = Append(@, <<>>),
                                 !.polls = 0]
       /\ UNCHANGED <<content, cursor, select, screen, row, saved, last, overflow_checks,
                      panicked>>
    \* -- worker: Self::read_event()
    \* a worker takes the next event from the console, or fails
    \/ /\ \E w \in 1..Len(trail.workers), event \in ConsoleEvents \cup {"Err"} :
              /\ trail.workers[w].at = "read_event"
              /\ trail' = IF event = "Err"
                          THEN [trail EXCEPT !.workers[w] = [at |-> "send", result |-> ReadErr]]
                          ELSE [trail EXCEPT !.workers[w] =
                                                 [at |-> "send",
                                                  result |-> <<trail.console + 1, event>>],
                                             !.console = @ + 1]
       /\ UNCHANGED <<content, cursor, select, screen, row, saved, last, steps, prompt,
                      overflow_checks, panicked>>
    \* -- worker: sender.send(..).unwrap()
    \* the worker sends what it has read on the channel of its call, and ends
    \/ /\ \E w \in 1..Len(trail.workers) :
              /\ trail.workers[w].at = "send"
              /\ trail' = [trail EXCEPT !.workers[w].at = "done",
                                        !.chans[w] = Append(@, trail.workers[w].result)]
       /\ UNCHANGED <<content, cursor, select, screen, row, saved, last, steps, prompt,
                      overflow_checks, panicked>>
    \* -- recv_timeout: Err
    \* nothing within 16 ms: the loop polls again
    \/ /\ prompt.at = "recv_timeout" /\ trail.polls < MaxPolls
       /\ recv_timeout(trail.chans[steps]) = None
       /\ trail' = [trail EXCEPT !.polls = @ + 1]
       /\ UNCHANGED <<content, cursor, select, screen, row, saved, last, steps, prompt,
                      overflow_checks, panicked>>
    \* -- recv_timeout: Ok(ch), return ch
    \* Ok(event) goes to the caller, which comes back for the next event; Err
    \* ends main through the ? of every caller
    \/ /\ prompt.at = "recv_timeout"
       /\ LET ch == recv_timeout(trail.chans[steps])
          IN  /\ ch # None
              /\ trail' = [trail EXCEPT !.chans[steps] = IF @ = <<>> THEN @ ELSE Tail(@),
                                        !.delivered = Append(@, Unwrap(ch))]
              /\ prompt' = [prompt EXCEPT !.at = IF Unwrap(ch) = ReadErr THEN "exited"
                                                 ELSE "handle_events"]
       /\ UNCHANGED <<content, cursor, select, screen, row, saved, last, steps,
                      overflow_checks, panicked>>

SpecWorker == WorkerInit /\ [][read_event_timeout]_vars

\* the events among the first n results returned
RECURSIVE EventsOf(_)
EventsOf(results) ==
    IF results = <<>> THEN <<>>
    ELSE IF Head(results) = ReadErr THEN EventsOf(Tail(results))
    ELSE <<Head(results)>> \o EventsOf(Tail(results))

\* C25: every call of read_event_timeout has spawned exactly one worker and
\* has returned exactly what that worker got from read_event, after the
\* worker sent it; at most one worker is reading input at any time; the
\* events reach the main loop in the order they were read, none lost and
\* none twice, whatever the interleaving of worker steps and timeouts.
C25_EventDelivery ==
    LET W == trail.workers
        events == EventsOf(trail.delivered)
        pendingReads == {w \in 1..Len(W) : W[w].at # "read_event" /\ W[w].result # ReadErr
                                            /\ w > Len(trail.delivered)}
    IN  /\ Len(W) = steps
        /\ Cardinality({w \in 1..Len(W) : W[w].at = "read_event"}) <= 1
        /\ Len(trail.delivered) <= Len(W)
        /\ \A i \in 1..Len(trail.delivered) :
               W[i].at = "done" /\ trail.delivered[i] = W[i].result
        /\ \A n \in 1..Len(events) : events[n][1] = n
        /\ trail.console = Len(events) + Cardinality(pendingReads)
        /\ Cardinality(pendingReads) <= 1

C25_Witness ==
    /\ Len(trail.delivered) = 2
    /\ EventsOf(trail.delivered) = trail.delivered
    /\ prompt.at = "recv_timeout"
    /\ trail.polls = MaxPolls
    /\ trail.workers[steps].at = "send"

----------------------------------------------------------------------------
(* delete_chars and copy_pending on a loaded buffer (SpecBuffer) *)

\* the watched call is op with an ordered pair of positions of the buffer
InBoundsRange(op, mode) ==
    /\ last.op = op
    /\ last.mode = mode
    /\ InBoundsAt(last.pre, last.at)
    /\ InBoundsAt(last.pre, last.end)
    /\ Ordered(last.at, last.end)

\* C26: delete_chars(start, end, None) with in-bounds start <= end leaves
\* rows() - (end.y - start.y) rows; row start.y is the first start.x
\* characters of the old row start.y followed by the old row end.y from
\* end.x on; the other rows keep their content and order; a non-empty
\* single-row delete records one history entry and sets cached().
C26_ContiguousDelete ==
    InBoundsRange("delete_chars", ModeNone) =>
        LET old == last.pre.rows
            sx == X(last.at)
            sy == Y(last.at)
            ex == X(last.end)
            ey == Y(last.end)
        IN  /\ ~panicked
            /\ rows(content) = Len(old) - (ey - sy)
            /\ content.rows = Take(old, sy)
                                \o <<Take(old[sy + 1], sx) \o Drop(old[ey + 1], ex)>>
                                \o Drop(old, ey + 1)
            /\ (sy = ey /\ sx < ex) =>
                   /\ Len(content.history) = Len(last.pre.history) + 1
                   /\ content.cached

C26_Witness ==
    /\ InBoundsRange("delete_chars", ModeNone)
    /\ Y(last.at) < Y(last.end)
    /\ 0 < X(last.at) /\ X(last.at) < Len(last.pre.rows[Y(last.at) + 1])
    /\ 0 < X(last.end) /\ X(last.end) < Len(last.pre.rows[Y(last.end) + 1])
    /\ rows(content) < Len(last.pre.rows)
    /\ ~last.pre.cached

\* the characters of row r at the columns lo .. hi - 1 that the row has
ColumnsOf(r, lo, hi) == Slice(r, Min(lo, Len(r)), Min(hi, Len(r)))

\* C27: for an ordered pair start <= end in (y, x) order with end.y < rows(),
\* start.x smaller or larger than end.x, delete_chars(start, end, Rectangle)
\* removes from every row of start.y .. end.y the characters it has at the
\* columns min(x) .. max(x) - 1, keeps the number of rows, and stashes in
\* pending one row per affected row, top to bottom, each max(x) - min(x)
\* characters long (padded with spaces), tagged Rectangle.
C27_RectangularDelete ==
    (/\ last.op = "delete_chars"
     /\ last.mode = ModeRectangle
     /\ Ordered(last.at, last.end)
     /\ Y(last.end) < rows(last.pre)) =>
        LET old == last.pre.rows
            lo == Min(X(last.at), X(last.end))
            hi == Max(X(last.at), X(last.end))
            sy == Y(last.at)
            ey == Y(last.end)
        IN  /\ ~panicked
            /\ rows(content) = Len(old)
            /\ \A y \in 0..(Len(old) - 1) :
                   content.rows[y + 1] =
                       IF sy <= y /\ y <= ey
                       THEN Take(old[y + 1], lo) \o Drop(old[y + 1], hi)
                       ELSE old[y + 1]
            /\ content.pending =
                   Some([rows |-> [i \in 1..(ey - sy + 1) |->
                                       LET cut == ColumnsOf(old[sy + i], lo, hi)
                                       IN  cut \o Repeat(SPACE, hi - lo - Len(cut))],
                         mode |-> ModeRectangle])

----------------------------------------------------------------------------
(* SpecJoin: split_row or squash_row on a loaded buffer, then the other one  *)
(* at the coordinate the first returned.  trail keeps the rows and the       *)
(* coordinate of the first call.                                             *)

JoinNext ==
    \* split_row(at), squash_row(at)
    \/ /\ ~panicked /\ last.op = "init"
       /\ \E at \in Coords, op \in {"split_row", "squash_row"} :
              LET res == IF op = "split_row" THEN split_row(content, at)
                         ELSE squash_row(content, at)
              IN  /\ last' = CallOf(op, at, at, ModeNone, <<>>, <<>>, 0, res.ret)
                  /\ trail' = <<[rows |-> content.rows, at |-> at]>>
                  /\ IF res.b.panic
                     THEN panicked' = TRUE /\ content' = content
                     ELSE panicked' = FALSE /\ content' = res.b
       /\ steps' = steps + 1
       /\ UNCHANGED <<cursor, select, screen, row, saved, prompt, overflow_checks>>
    \* the other one, at the coordinate returned
    \/ /\ ~panicked /\ last.op \in {"split_row", "squash_row"} /\ IsSome(last.ret)
       /\ LET back == IF last.op = "split_row" THEN "squash_row_back" ELSE "split_row_back"
              res == IF last.op = "split_row" THEN squash_row(content, Unwrap(last.ret))
                     ELSE split_row(content, Unwrap(last.ret))
          IN  /\ last' = CallOf(back, Unwrap(last.ret), Unwrap(last.ret), ModeNone, <<>>,
                                <<>>, 0, res.ret)
              /\ IF res.b.panic
                 THEN panicked' = TRUE /\ content' = content
                 ELSE panicked' = FALSE /\ content' = res.b
       /\ steps' = steps + 1
       /\ UNCHANGED <<cursor, select, screen, row, saved, prompt, trail, overflow_checks>>

SpecJoin == BufInit /\ [][JoinNext]_vars

\* C28: split_row((x, y)) at a position of the buffer leaves in row y its
\* first x characters and makes a new row y + 1 of the rest, and squash_row
\* at the coordinate it returned restores the rows; squash_row((_, y)) with
\* 0 < y < rows() appends row y to row y - 1 and returns (old length of row
\* y - 1, y - 1), and split_row at that coordinate restores the rows;
\* squash_row at y = 0 changes nothing and records nothing.
C28_SplitSquashInverse ==
    LET old == last.pre.rows
        x == X(last.at)
        y == Y(last.at)
        first == trail[1]
    IN  /\ (last.op = "split_row" /\ InBoundsAt(last.pre, last.at)) =>
               /\ ~panicked
               /\ content.rows = Take(old, y) \o <<Take(old[y + 1], x), Drop(old[y + 1], x)>>
                                     \o Drop(old, y + 1)
        /\ (last.op = "squash_row_back"
                /\ InBoundsAt(BufferFrom(first.rows, None), first.at)) =>
               ~panicked /\ content.rows = first.rows
        /\ (last.op = "squash_row" /\ 0 < y /\ y < Len(old)) =>
               /\ ~panicked
               /\ content.rows = Take(old, y - 1) \o <<old[y] \o old[y + 1]>> \o Drop(old, y + 1)
               /\ last.ret = Some(<<Len(old[y]), y - 1>>)
        /\ (last.op = "split_row_back" /\ 0 < Y(first.at) /\ Y(first.at) < Len(first.rows)) =>
               ~panicked /\ content.rows = first.rows
        /\ (last.op = "squash_row" /\ y = 0) =>
               ~panicked /\ content = last.pre /\ last.ret = None

C28_Witness ==
    /\ last.op = "squash_row_back"
    /\ InBoundsAt(BufferFrom(trail[1].rows, None), trail[1].at)
    /\ 0 < X(trail[1].at) /\ X(trail[1].at) < Len(trail[1].rows[Y(trail[1].at) + 1])
    /\ Y(trail[1].at) + 1 < Len(trail[1].rows)
    /\ content.rows = trail[1].rows
    /\ Len(content.history) = 2

----------------------------------------------------------------------------
(* SpecReplace: replace called once on a loaded buffer, with any coordinate  *)
(* and any length a usize holds, the largest included                        *)

ReplaceLengths == Lengths \cup {USizeModulus - 1}

ReplaceNext ==
    /\ ~panicked /\ last.op = "init"
    /\ \E at \in Coords, length \in ReplaceLengths, text \in Texts :
           LET res == replace(content, at, length, text)
           IN  /\ last' = CallOf("replace", at, at, ModeNone, text, <<>>, length, res.ret)
               /\ IF res.b.panic
                  THEN panicked' = TRUE /\ content' = content
                  ELSE panicked' = FALSE /\ content' = res.b
    /\ steps' = steps + 1
    /\ UNCHANGED <<cursor, select, screen, row, saved, prompt, trail, overflow_checks>>

SpecReplace == BufInit /\ [][ReplaceNext]_vars

\* C29: replace(at, length, text) with at.x + length <= the length of row
\* at.y turns the row into its first at.x characters, text, and its
\* characters from at.x + length on, and returns the removed characters; in
\* every other case it returns None and the rows, the dirty flag and the
\* history are unchanged.
C29_ReplaceAtomic ==
    last.op = "replace" =>
        LET old == last.pre.rows
            x == X(last.at)
            y == Y(last.at)
        IN  /\ ~panicked
            /\ IF y < Len(old) /\ x + last.length <= Len(old[y + 1])
               THEN /\ content.rows = [old EXCEPT ![y + 1] =
                                          Take(@, x) \o last.text \o Drop(@, x + last.length)]
                    /\ last.ret = Some(Slice(old[y + 1], x, x + last.length))
               ELSE /\ last.ret = None
                    /\ content.rows = old
                    /\ content.cached = last.pre.cached
                    /\ content.history = last.pre.history

----------------------------------------------------------------------------
\* C30: for any mode and in-bounds start <= end, copy_pending(start..end,
\* mode) leaves the rows, the dirty flag, the updated ranges and the history
\* unchanged, and leaves in pending exactly what delete_chars(start, end,
\* mode) on the same buffer would leave there: the same rows in the same
\* order with the same mode tag.
C30_CopyIsReadOnlyCut ==
    (InBoundsRange("copy_pending", ModeNone) \/ InBoundsRange("copy_pending", ModeRectangle)) =>
        LET cut == delete_chars(last.pre, last.at, last.end, last.mode).b
        IN  /\ ~panicked
            /\ content.rows = last.pre.rows
            /\ content.cached = last.pre.cached
            /\ content.updated = last.pre.updated
            /\ content.history = last.pre.history
            /\ ~cut.panic
            /\ content.pending = cut.pending

----------------------------------------------------------------------------
\* row j of the buffer after the rows rs have been inserted as a rectangle
\* at (x, y) into the rows old
RectangleInserted(old, rs, x, y, j) ==
    IF y <= j /\ j < y + Len(rs)
    THEN LET r == rs[j - y + 1]
         IN  IF j < Len(old)
             THEN IF Len(old[j + 1]) < x
                  THEN old[j + 1] \o Repeat(SPACE, x - Len(old[j + 1])) \o r
                  ELSE Take(old[j + 1], x) \o r \o Drop(old[j + 1], x)
             ELSE Repeat(SPACE, x) \o r
    ELSE old[j + 1]

\* C31: insert_chars(at, rows, Rectangle) inserts rows[i] into buffer row
\* at.y + i at column at.x for every i, a shorter target row being padded
\* with spaces up to at.x first and a target row past the end of the buffer
\* being created as at.x spaces followed by rows[i]; afterwards rows() is
\* max(old rows(), at.y + number of inserted rows), the returned end is
\* (at.x + length of the last inserted row, at.y + number of inserted rows
\* - 1), and exactly one history entry is recorded.
C31_RectangularInsert ==
    (last.op = "insert_chars" /\ last.mode = ModeRectangle /\ last.rs # <<>>) =>
        LET old == last.pre.rows
            n == Len(last.rs)
            x == X(last.at)
            y == Y(last.at)
        IN  /\ ~panicked
            /\ rows(content) = Max(Len(old), y + n)
            /\ \A j \in 0..(rows(content) - 1) :
                   (j < Len(old) \/ y <= j) =>
                       content.rows[j + 1] = RectangleInserted(old, last.rs, x, y, j)
            /\ last.ret = Some(<<x + Len(last.rs[n]), y + n - 1>>)
            /\ Len(content.history) = Len(last.pre.history) + 1

----------------------------------------------------------------------------
\* C32: move_right goes from (x, y) to (x + 1, y) when x < row length, else
\* to (0, y + 1) when y < rows(), else stays; move_left goes to (x - 1, y)
\* when x > 0, else to (length of row y - 1, y - 1) when y > 0, else stays;
\* move_up and move_down change y by one within 0 .. rows() and clamp x to
\* the length of the target row; each returns true exactly when the
\* coordinates after the call differ from those before.
C32_CursorStepping ==
    LET x == X(last.pre)
        y == Y(last.pre)
        len(row_y) == row_char_len(content, <<0, row_y>>)
    IN  /\ last.op = "move_right" =>
               cursor = IF x < len(y) THEN <<x + 1, y>>
                        ELSE IF y < rows(content) THEN <<0, y + 1>>
                        ELSE <<x, y>>
        /\ last.op = "move_left" =>
               cursor = IF x > 0 THEN <<x - 1, y>>
                        ELSE IF y > 0 THEN <<len(y - 1), y - 1>>
                        ELSE <<x, y>>
        /\ last.op = "move_up" =>
               cursor = IF y > 0 THEN <<Min(x, len(y - 1)), y - 1>> ELSE <<x, y>>
        /\ last.op = "move_down" =>
               cursor = IF y < rows(content) THEN <<Min(x, len(y + 1)), y + 1>> ELSE <<x, y>>
        /\ last.op \in {"move_right", "move_left", "move_up", "move_down"} =>
               /\ ~panicked
               /\ last.ret = (cursor # last.pre)

\* a step to the right wrapped to the start of the next row, and a step up
\* pulled x back to the end of a shorter row
C32_Witness ==
    \/ /\ last.op = "move_right"
       /\ X(last.pre) = row_char_len(content, last.pre)
       /\ X(last.pre) > 0
       /\ cursor = <<0, Y(last.pre) + 1>>
       /\ last.ret
    \/ /\ last.op = "move_up"
       /\ X(cursor) < X(last.pre)
       /\ Y(cursor) = Y(last.pre) - 1

----------------------------------------------------------------------------
(* SpecRender: move_down_render and move_up_render over rows whose character
   boundaries lie several columns apart *)

RenderRowPool == {<<TAB, "a">>, <<WIDE, WIDE, WIDE>>, <<"a", WIDE>>}

\* Cursor::from builds the cursor; the buffer is loaded from the pool
RenderInit ==
    /\ \E rs \in SeqsUpTo(RenderRowPool, MaxCursorRows) : content = BufferFrom(rs, None)
    /\ cursor \in CursorCoords
    /\ screen = ScreenDefault
    /\ last = CursorNoCall
    /\ saved = content.rows
    /\ select = SelectDefault
    /\ prompt = PromptDefault
    /\ row = <<>>
    /\ steps = 0
    /\ trail = <<>>
    /\ overflow_checks \in BOOLEAN
    /\ panicked = FALSE

\* A step is one vertical move that keeps the render column
RenderNext ==
    \/ ~panicked /\
       CursorCall("move_down_render", <<0, 0>>, move_down_render(cursor, content),
                  RenderPanics(cursor, content))
    \/ ~panicked /\
       CursorCall("move_up_render", <<0, 0>>, move_up_render(cursor, content),
                  RenderPanics(cursor, content))

SpecRender == RenderInit /\ [][RenderNext]_vars

\* the row the last vertical move went to, when the buffer has one there
RenderTarget ==
    IF last.op = "move_down_render" THEN Y(last.pre) + 1 ELSE Y(last.pre) - 1

\* the call moved a cursor inside the buffer to an adjacent row of the buffer
RenderMoved ==
    /\ last.op \in {"move_down_render", "move_up_render"}
    /\ Clamped(last.pre, content)
    /\ RenderTarget >= 0
    /\ RenderTarget < rows(content)

\* cumulative width of the target row up to boundary x
BoundaryWidth(x) == RowWidthRange(content.rows[RenderTarget + 1], 0, x)

Distance(a, b) == IF a < b THEN b - a ELSE a - b

\* C33: after move_up_render / move_down_render from render column c the
\* cursor is on the adjacent row at the boundary whose cumulative width is
\* nearest to c among all boundaries of that row
C33_NearestBoundary ==
    RenderMoved =>
        LET c == X(render(last.pre, content))
        IN  /\ ~panicked
            /\ Y(cursor) = RenderTarget
            /\ X(cursor) <= Len(content.rows[RenderTarget + 1])
            /\ \A x \in 0..Len(content.rows[RenderTarget + 1]) :
                   Distance(BoundaryWidth(X(cursor)), c) <= Distance(BoundaryWidth(x), c)

\* C33 (amended): the cursor is on the adjacent row at the boundary of
\* greatest cumulative width that does not exceed c, which is the boundary of
\* width exactly c when one exists
C33_FloorBoundary ==
    RenderMoved =>
        LET c == X(render(last.pre, content))
        IN  /\ ~panicked
            /\ Y(cursor) = RenderTarget
            /\ X(cursor) <= Len(content.rows[RenderTarget + 1])
            /\ BoundaryWidth(X(cursor)) <= c
            /\ \A x \in 0..Len(content.rows[RenderTarget + 1]) :
                   BoundaryWidth(x) <= c => BoundaryWidth(x) <= BoundaryWidth(X(cursor))

\* a move from column 6 of three double-width characters onto a row that
\* starts with a tab: the cursor lands before the tab, not after it
C33_Witness ==
    /\ RenderMoved
    /\ X(render(last.pre, content)) = 6
    /\ content.rows[RenderTarget + 1] = <<TAB, "a">>
    /\ cursor = <<0, RenderTarget>>

----------------------------------------------------------------------------
(* SpecScreenFit: Screen::fit called with any position on any viewport *)

MaxFitTop == 4
MaxFitHeight == 3

FitPositions == (0..MaxViewport + 1) \X (0..MaxFitTop)

\* a Screen after resize and earlier moves, over a loaded Buffer
ScreenFitInit ==
    /\ \E rs \in SeqsUpTo(FitRowPool, MaxRows) : content = BufferFrom(rs, Some("f"))
    /\ saved = content.rows
    /\ cursor = CursorDefault
    /\ screen \in [left0 : 0..MaxViewport, top0 : 0..MaxFitTop, height : 1..MaxFitHeight,
                   width : 1..MaxViewport, updated : BOOLEAN]
    /\ select = SelectDefault
    /\ prompt = PromptDefault
    /\ row = <<>>
    /\ last = CursorNoCall
    /\ steps = 0
    /\ trail = <<>>
    /\ overflow_checks \in BOOLEAN
    /\ panicked = FALSE

\* One call of Screen::fit: trail keeps the viewport the call found, last.ret
\* is what the call returned
ScreenFitNext ==
    \E pos \in FitPositions :
        /\ ~panicked
        /\ steps < MaxSteps
        /\ steps' = steps + 1
        /\ trail' = <<screen>>
        /\ IF overflow_checks /\ FitUnderflows(screen, content, pos)
           THEN /\ panicked' = TRUE
                /\ last' = [op |-> "fit", at |-> pos, pre |-> pos, ret |-> FALSE]
                /\ UNCHANGED screen
           ELSE /\ panicked' = FALSE
                /\ screen' = fit(screen, content, pos)
                /\ last' = [op |-> "fit", at |-> pos, pre |-> pos,
                            ret |-> screen # fit(screen, content, pos)]
        /\ UNCHANGED <<content, saved, cursor, select, prompt, row, overflow_checks>>

SpecScreenFit == ScreenFitInit /\ [][ScreenFitNext]_vars

\* C34: once fit has returned, top is unchanged when top <= pos.y <= bottom,
\* is pos.y when pos.y was above the viewport and pos.y - (height - 1) when it
\* was below; fit returns true exactly when left or top changed, the
\* viewport-updated flag is then set, and a flag that was set stays set
C34_FitSnapsMinimally ==
    (last.op = "fit" /\ ~panicked) =>
        LET cur == trail[1]
            y == Y(last.at)
        IN  /\ screen.top0 = IF y < cur.top0 THEN y
                             ELSE IF y > cur.top0 + cur.height - 1 THEN y - (cur.height - 1)
                             ELSE cur.top0
            /\ last.ret <=> (screen.left0 # cur.left0 \/ screen.top0 # cur.top0)
            /\ last.ret => screen.updated
            /\ cur.updated => screen.updated
            /\ (~last.ret /\ ~cur.updated) => ~screen.updated
            /\ screen.height = cur.height /\ screen.width = cur.width

\* a viewport of height 3 that does not show row 4 is moved down to top 2
C34_Witness ==
    /\ last.op = "fit" /\ ~panicked
    /\ trail[1].height = 3 /\ trail[1].top0 = 0 /\ ~trail[1].updated
    /\ Y(last.at) = 4
    /\ screen.top0 = 2 /\ screen.updated /\ last.ret

----------------------------------------------------------------------------
(* Select::xrange on the selections of SpecSelect *)

\* the anchor and the focus of the range, the one first in (y, x) order first
RangeEnds ==
    LET a == Unwrap(select.range)[1]
        f == Unwrap(select.range)[2]
    IN  IF Y(a) < Y(f) \/ (Y(a) = Y(f) /\ X(a) <= X(f)) THEN <<a, f>> ELSE <<f, a>>

\* C35: xrange gives each row its part of the selection.  Enabled and
\* contiguous: None outside [start.y, end.y], (start.x, end.x) on the row of a
\* single-row selection, (start.x, usize::MAX) on the first row, (0, end.x) on
\* the last row and (0, usize::MAX) in between.  Rectangular: (min x, max x)
\* on every row of the range and None elsewhere.  Disabled: None everywhere.
C35_XRangePartition ==
    \A y \in 0..(MaxSelectCoord + 1) :
        IF ~select.enabled \/ select.range = None THEN xrange(select, y) = None
        ELSE LET start == RangeEnds[1]
                 end == RangeEnds[2]
             IN  IF y < Y(start) \/ y > Y(end) THEN xrange(select, y) = None
                 ELSE IF select.mode = ModeRectangle
                 THEN xrange(select, y) =
                          Some(<<IF X(start) < X(end) THEN X(start) ELSE X(end),
                                 IF X(start) < X(end) THEN X(end) ELSE X(start)>>)
                 ELSE IF Y(start) = Y(end) THEN xrange(select, y) = Some(<<X(start), X(end)>>)
                 ELSE IF y = Y(start) THEN xrange(select, y) = Some(<<X(start), USizeMax>>)
                 ELSE IF y = Y(end) THEN xrange(select, y) = Some(<<0, X(end)>>)
                 ELSE xrange(select, y) = Some(<<0, USizeMax>>)

\* a contiguous selection drawn upwards over three rows
C35_Witness ==
    /\ select.enabled /\ select.mode = ModeNone
    /\ select.range = Some(<<<<1, 2>>, <<2, 0>>>>)
    /\ xrange(select, 0) = Some(<<2, USizeMax>>)
    /\ xrange(select, 1) = Some(<<0, USizeMax>>)
    /\ xrange(select, 2) = Some(<<0, 1>>)

----------------------------------------------------------------------------
(* The reverse video Screen::draw asks for against Select::xrange *)

\* the columns [from, to) of the row at index that the selection covers, in
\* render columns, cut to the columns the viewport shows
ShownSpan(s, b, sel, index) ==
    LET r == b.rows[index + 1]
        span == Unwrap(xrange(sel, index))
        from == RowWidthRange(r, 0, Min(span[1], Len(r)))
        to == RowWidthRange(r, 0, Min(span[2], Len(r)))
    IN  <<Max(from, s.left0), Min(to, right(s) + 1)>>

\* C36: for every repainted row of the buffer inside an enabled selection,
\* draw asks for reverse video on exactly the part of the row's selection
\* span that lies inside [left, right], on screen row index - top, which is
\* within [0, height); the span arithmetic neither underflows nor indexes
\* past the end of a row
C36_HighlightPlacement ==
    (/\ prompt.at = "refresh"
     /\ ~panicked
     /\ ~RenderPanics(cursor, content)
     /\ ~(overflow_checks /\ FitUnderflows(screen, content, render(cursor, content))))
        => LET s == fit(screen, content, render(cursor, content))
           IN  /\ ~Drawing.panic
               /\ \A index \in s.top0..(Min(rows(content), bottom(s) + 1) - 1) :
                      Selected(select, index) =>
                          LET span == ShownSpan(s, content, select, index)
                          IN  \A i \in 1..Len(DrawRow(s, content, select, overflow_checks, index).calls) :
                                  LET c == DrawRow(s, content, select, overflow_checks, index).calls[i]
                                  IN  c.call = "set_text_attribute" =>
                                          /\ c.y = index - s.top0
                                          /\ c.y < s.height
                                          /\ span[1] < span[2] =>
                                                 /\ c.x = span[1] - s.left0
                                                 /\ c.length = span[2] - span[1]
                                          /\ span[1] >= span[2] => c.length = 0

----------------------------------------------------------------------------
(* The pending rows from one call on the Buffer to the next *)

\* the calls that are neither a cut, nor a copy, nor a kill to the end of the
\* row
KeepingOps ==
    {"undo", "paste_pending", "insert_row", "insert_char", "insert_chars", "delete_row",
     "delete_char", "replace", "split_row", "squash_row"}

\* C37: pending changes only through delete_chars, copy_pending and
\* shrink_row: undo(), paste_pending, insert_*, delete_row, delete_char,
\* replace, split_row and squash_row leave its rows and its mode as they were
C37_ClipboardFrame ==
    (last.op \in KeepingOps /\ ~panicked) => content.pending = last.pre.pending

----------------------------------------------------------------------------
(* The fields of Select against each other, on SpecSelect *)

\* C38: in every state reached through set_start, set_end and disable, an
\* enabled selection has a range, so that the unwrap of set_end panics only
\* on a selection that is not enabled; and a selection without a range has
\* mode None and no previous focus
C38_SelectionState ==
    /\ select.enabled => IsSome(select.range) /\ ~SetEndPanics(select)
    /\ (last.op = "set_end" /\ panicked) => ~select.enabled
    /\ select.range = None => select.mode = ModeNone /\ select.previous = None

\* a rectangular selection that set_end has extended
C38_Witness ==
    /\ last.op = "set_end" /\ ~panicked
    /\ select.enabled
    /\ select.mode = ModeRectangle
    /\ IsSome(select.range) /\ IsSome(select.previous)

----------------------------------------------------------------------------
(* The Delete key *)

\* the main loop has handled a Delete key
DeletePressed ==
    /\ prompt.at = "handle_events"
    /\ prompt'.at = "refresh"
    /\ last'.op = "Delete"
    /\ ~panicked'

\* the rows without the character at c, the row after c joined to the row of
\* c when c is at the end of a row that is not the last
ForwardDeleted(rs, c) ==
    IF Y(c) < Len(rs) /\ X(c) < Len(rs[Y(c) + 1])
    THEN [rs EXCEPT ![Y(c) + 1] = SubSeq(@, 1, X(c)) \o SubSeq(@, X(c) + 2, Len(@))]
    ELSE IF Y(c) + 1 < Len(rs)
    THEN SubSeq(rs, 1, Y(c)) \o <<rs[Y(c) + 1] \o rs[Y(c) + 2]>> \o SubSeq(rs, Y(c) + 3, Len(rs))
    ELSE rs

\* C39: a Delete key leaves the cursor where it is; it removes the character
\* at the cursor, or joins the next row to the row of the cursor when the
\* cursor is at the end of a row that is not the last, and changes nothing at
\* the end of the last row and on the append position
C39_ForwardDelete ==
    [][DeletePressed =>
           /\ cursor' = cursor
           /\ content'.rows = ForwardDeleted(content.rows, cursor)]_vars

----------------------------------------------------------------------------
(* SpecWait: read_event_timeout over a Terminal whose read_event may panic:  *)
(* the worker then ends without sending, its Sender is dropped and the       *)
(* channel is disconnected.  recv_timeout answers Err for a disconnected     *)
(* channel as it does for a timeout, and the loop of read_event_timeout      *)
(* takes both the same way                                                   *)

\* -- worker: Self::read_event() panics
\* the worker ends; nothing is sent on the channel of its call
read_event_panics ==
    /\ \E w \in 1..Len(trail.workers) :
           /\ trail.workers[w].at = "read_event"
           /\ trail' = [trail EXCEPT !.workers[w].at = "panicked"]
    /\ UNCHANGED <<content, cursor, select, screen, row, saved, last, steps, prompt,
                   overflow_checks, panicked>>

WaitNext == read_event_timeout \/ read_event_panics

SpecWait == WorkerInit /\ [][WaitNext]_vars

\* the loop of read_event_timeout goes round once more
Retries == prompt.at = "recv_timeout" /\ trail'.polls = trail.polls + 1

\* C40: read_event_timeout polls again only while the worker of the call is
\* still alive and the poll has timed out: once the worker has sent, the
\* call returns what it sent, and once the worker has ended without sending
\* the loop stops instead of polling again
C40_WaitTerminates ==
    [][Retries =>
           /\ trail.chans[steps] = <<>>
           /\ trail.workers[steps].at \in {"read_event", "send"}]_vars

====
